---- MODULE Spec2Model ----
(***************************************************************************)
(* A model of pagespeed-ai's critical-CSS extractor                        *)
(* (critical_css_extractor.py) and of the page transform of its site       *)
(* optimizer (site_optimizer.py).                                          *)
(*                                                                         *)
(* Text is modelled by TLA+ strings (Len, SubSeq and \o act on them as on  *)
(* Python's str), so the regular expressions, strip() and split() of the   *)
(* source are computed character by character.                             *)
(***************************************************************************)
EXTENDS Integers, Sequences, FiniteSets, TLC

\* ------------------------------------------------------------------------
\* Bounds of the model
\* ------------------------------------------------------------------------

\* CSS texts are concatenations of at most MaxChunks fragments of CssChunks.
MaxChunks == 3
\* Critical-selector sets handed to generate_critical_css hold at most MaxCrit
\* selectors.
MaxCrit == 2

\* Lists of selectors handed to match_selectors hold at most MaxSelectors
\* selectors.
MaxSelectors == 2

\* Documents hold at most MaxElems shapes.
MaxElems == 4

\* Pages hold at most MaxPageElems shapes.
MaxPageElems == 3
\* extract_critical_css is called at most MaxCalls times in a run.
MaxCalls == 3

\* Pages handed to the optimizer hold at most MaxSiteElems shapes.
MaxSiteElems == 2

VARIABLES
    pc,     \* the control position of the run
    arg,    \* the inputs of a function applied on its own
    ret,    \* its results
    world,  \* the network: the page behind the URL, its stylesheets and images
    ext,    \* the CriticalCSSExtractor object
    loc,    \* the calls of extract_critical_css made so far and their results
    site    \* the SiteOptimizer object

vars == << pc, arg, ret, world, ext, loc, site >>

\* None where an object, a tree or a record is expected, and the value of a
\* variable a specification does not use.
None == << >>

\* No page is fetched and no object is built where a function is applied on its
\* own.
PipelineIdle == world = None /\ ext = None /\ loc = None /\ site = None

\* ------------------------------------------------------------------------
\* Python's str operations
\* ------------------------------------------------------------------------

\* The character at position i (1-based), "" past either end.
Char(s, i) == IF i >= 1 /\ i <= Len(s) THEN SubSeq(s, i, i) ELSE ""

\* The characters str.strip() removes.
Whitespace == {" ", "\n", "\t", "\r"}

RECURSIVE LStripFrom(_, _)
LStripFrom(s, i) ==
    IF i > Len(s) THEN ""
    ELSE IF Char(s, i) \in Whitespace THEN LStripFrom(s, i + 1)
    ELSE SubSeq(s, i, Len(s))

RECURSIVE RStripTo(_, _)
RStripTo(s, j) ==
    IF j < 1 THEN ""
    ELSE IF Char(s, j) \in Whitespace THEN RStripTo(s, j - 1)
    ELSE SubSeq(s, 1, j)

\* s.strip()
Strip(s) == LStripFrom(RStripTo(s, Len(s)), 1)

\* s.startswith(p)
StartsWith(s, p) == Len(p) <= Len(s) /\ SubSeq(s, 1, Len(p)) = p

\* needle in hay
Contains(hay, needle) ==
    \E i \in 1..(Len(hay) - Len(needle) + 1) :
        SubSeq(hay, i, i + Len(needle) - 1) = needle

\* s.split(sep) for a one-character separator: never empty, empty pieces kept.
RECURSIVE SplitFrom(_, _, _, _)
SplitFrom(s, sep, i, start) ==
    IF i > Len(s) THEN << SubSeq(s, start, Len(s)) >>
    ELSE IF Char(s, i) = sep
         THEN << SubSeq(s, start, i - 1) >> \o SplitFrom(s, sep, i + 1, i + 1)
         ELSE SplitFrom(s, sep, i + 1, start)

Split(s, sep) == SplitFrom(s, sep, 1, 1)

\* The least index j >= i with s[j] = c, or 0.
RECURSIVE FirstAt(_, _, _)
FirstAt(s, c, i) ==
    IF i > Len(s) THEN 0
    ELSE IF Char(s, i) = c THEN i
    ELSE FirstAt(s, c, i + 1)

Range(seq) == { seq[i] : i \in DOMAIN seq }

\* ------------------------------------------------------------------------
\* The regular expressions of the extractor
\* ------------------------------------------------------------------------

\* re.compile(r'([^{]+){([^}]*)}').findall(css): the matches, left to right and
\* not overlapping, each with its two groups.  At a start position the greedy
\* [^{]+ runs to the next '{' (it must take at least one character), and [^}]*
\* runs to the next '}'; a position where that fails is skipped.
RECURSIVE FindRulesFrom(_, _)
FindRulesFrom(css, i) ==
    IF i > Len(css) THEN << >>
    ELSE IF Char(css, i) = "{" THEN FindRulesFrom(css, i + 1)
    ELSE LET j == FirstAt(css, "{", i)
             k == IF j = 0 THEN 0 ELSE FirstAt(css, "}", j + 1)
         IN  IF k = 0 THEN FindRulesFrom(css, i + 1)
             ELSE << [selector |-> SubSeq(css, i, j - 1),
                      rules    |-> SubSeq(css, j + 1, k - 1)] >>
                  \o FindRulesFrom(css, k + 1)

FindRules(css) == FindRulesFrom(css, 1)

Letters ==
    { "a", "b", "c", "d", "e", "f", "g", "h", "i", "j", "k", "l", "m",
      "n", "o", "p", "q", "r", "s", "t", "u", "v", "w", "x", "y", "z",
      "A", "B", "C", "D", "E", "F", "G", "H", "I", "J", "K", "L", "M",
      "N", "O", "P", "Q", "R", "S", "T", "U", "V", "W", "X", "Y", "Z" }

\* The class [a-zA-Z-].
IsIdentChar(c) == c \in Letters \cup { "-" }

\* The last index of the run of [a-zA-Z-] that starts at i (i - 1: no run).
RECURSIVE IdentEnd(_, _)
IdentEnd(s, i) ==
    IF i <= Len(s) /\ IsIdentChar(Char(s, i)) THEN IdentEnd(s, i + 1) ELSE i - 1

\* The last index of a match of ::?[a-zA-Z-]+(\([^)]*\))? that starts at i, or 0.
PseudoEnd(s, i) ==
    IF Char(s, i) # ":" THEN 0
    ELSE LET p == IF Char(s, i + 1) = ":" THEN i + 2 ELSE i + 1
             q == IdentEnd(s, p)
             r == IF Char(s, q + 1) = "(" THEN FirstAt(s, ")", q + 2) ELSE 0
         IN  IF q < p THEN 0 ELSE IF r # 0 THEN r ELSE q

\* re.sub(r'::?[a-zA-Z-]+(\([^)]*\))?', '', s)
RECURSIVE StripPseudoFrom(_, _)
StripPseudoFrom(s, i) ==
    IF i > Len(s) THEN ""
    ELSE LET e == PseudoEnd(s, i)
         IN  IF e = 0 THEN Char(s, i) \o StripPseudoFrom(s, i + 1)
             ELSE StripPseudoFrom(s, e + 1)

StripPseudo(s) == StripPseudoFrom(s, 1)

\* ------------------------------------------------------------------------
\* CriticalCSSExtractor: the stylesheet functions
\* ------------------------------------------------------------------------

\* [s.strip() for s in parts]
StripAll(parts) == [ i \in DOMAIN parts |-> Strip(parts[i]) ]

\* A parse_css without the test for '@'.
ParseSkipsRule_NoAtTest(selector) == FALSE

\* parse_css's test "selector.startswith('@')": the rule is skipped.
ParseSkipsRule(selector) == StartsWith(selector, "@")

\* The loop of parse_css over the matches: selectors is the list built so far.
RECURSIVE ParseLoop(_, _, _)
ParseLoop(matches, i, selectors) ==
    IF i > Len(matches) THEN selectors
    ELSE LET selector == Strip(matches[i].selector)
         IN  IF ParseSkipsRule(selector)
             THEN ParseLoop(matches, i + 1, selectors)
             ELSE ParseLoop(matches, i + 1,
                            selectors \o StripAll(Split(selector, ",")))

parse_css(css_content) == ParseLoop(FindRules(css_content), 1, << >>)

\* An inner loop without the break, whose flag is overwritten by every signature:
\* the last one in iteration order decides.
SomeSignatureIn_LastDecides(order, j, base_selector) ==
    order # << >> /\ Contains(base_selector, order[Len(order)])

\* An inner loop that compares for equality instead of looking for a substring.
SomeSignatureIn_Exact(order, j, base_selector) ==
    \E k \in DOMAIN order : order[k] = base_selector

\* An inner loop that tries only the signature that comes first in the
\* iteration.
SomeSignatureIn_FirstOnly(order, j, base_selector) ==
    order # << >> /\ Contains(base_selector, order[1])

\* The inner loop of match_selectors: element_selectors is iterated in the order
\* given by the sequence order, and left at the first signature that is a
\* substring of base_selector.
RECURSIVE SomeSignatureIn(_, _, _)
SomeSignatureIn(order, j, base_selector) ==
    IF j > Len(order) THEN FALSE
    ELSE IF Contains(base_selector, order[j]) THEN TRUE
    ELSE SomeSignatureIn(order, j + 1, base_selector)

\* The outer loop of match_selectors.
RECURSIVE MatchLoop(_, _, _, _)
MatchLoop(order, css_selectors, i, matching_selectors) ==
    IF i > Len(css_selectors) THEN matching_selectors
    ELSE LET css_selector  == css_selectors[i]
             base_selector == StripPseudo(css_selector)
         IN  MatchLoop(order, css_selectors, i + 1,
                       IF SomeSignatureIn(order, 1, base_selector)
                       THEN matching_selectors \cup { css_selector }
                       ELSE matching_selectors)

\* A match_selectors that returns the base forms it has compared instead of
\* the selectors as they stand in the stylesheet.
match_selectors_BaseForms(order, css_selectors) ==
    { StripPseudo(s) : s \in MatchLoop(order, css_selectors, 1, {}) }


\* match_selectors(element_selectors, css_selectors); order lists the set
\* element_selectors in the order in which Python iterates over it.
match_selectors(order, css_selectors) == MatchLoop(order, css_selectors, 1, {})

\* The texts generate_critical_css starts from.
Header == "/* Critical CSS extracted by PageSpeed AI */\n"

Preamble ==
    "\nhtml, body {\n    margin: 0;\n    padding: 0;\n    box-sizing: border-box;\n}\n"
    \o "\n*, *::before, *::after {\n    box-sizing: inherit;\n}\n"

\* [r.strip() for r in rules.split(';') if r.strip()]
RECURSIVE NonEmptyStripped(_, _)
NonEmptyStripped(parts, i) ==
    IF i > Len(parts) THEN << >>
    ELSE IF Strip(parts[i]) # ""
         THEN << Strip(parts[i]) >> \o NonEmptyStripped(parts, i + 1)
         ELSE NonEmptyStripped(parts, i + 1)

RuleParts(rules) == NonEmptyStripped(Split(rules, ";"), 1)

\* The lines "    {rule};\n" of one emitted block.
RECURSIVE FormatRules(_, _)
FormatRules(rule_parts, i) ==
    IF i > Len(rule_parts) THEN ""
    ELSE "    " \o rule_parts[i] \o ";\n" \o FormatRules(rule_parts, i + 1)

\* The text generate_critical_css adds for one rule it emits.
EmitRule(selector, rules) ==
    selector \o " {\n" \o FormatRules(RuleParts(rules), 1) \o "}\n\n"

\* generate_critical_css's test "selector.startswith('@')": the rule is skipped.
GenerateSkipsRule(selector) == StartsWith(selector, "@")

\* A test that looks at the first selector of the list only.
AnyCritical_FirstOnly(selector, critical_selectors) ==
    Strip(Split(selector, ",")[1]) \in critical_selectors


\* any(s in critical_selectors for s in selector_parts)
AnyCritical(selector, critical_selectors) ==
    LET selector_parts == StripAll(Split(selector, ","))
    IN  \E i \in DOMAIN selector_parts : selector_parts[i] \in critical_selectors

\* The loop of generate_critical_css over the rules of one stylesheet.
RECURSIVE GenerateRules(_, _, _, _)
GenerateRules(matches, i, critical_selectors, critical_css) ==
    IF i > Len(matches) THEN critical_css
    ELSE LET selector == Strip(matches[i].selector)
         IN  IF GenerateSkipsRule(selector)
             THEN GenerateRules(matches, i + 1, critical_selectors, critical_css)
             ELSE IF AnyCritical(selector, critical_selectors)
             THEN GenerateRules(matches, i + 1, critical_selectors,
                                critical_css \o EmitRule(selector, matches[i].rules))
             ELSE GenerateRules(matches, i + 1, critical_selectors, critical_css)

\* The loop of generate_critical_css over self.css_contents, a dict: a sequence
\* of [key, content] in insertion order.
RECURSIVE GenerateSheets(_, _, _, _)
GenerateSheets(css_contents, n, critical_selectors, critical_css) ==
    IF n > Len(css_contents) THEN critical_css
    ELSE GenerateSheets(css_contents, n + 1, critical_selectors,
                        GenerateRules(FindRules(css_contents[n].content), 1,
                                      critical_selectors, critical_css))

\* A generate_critical_css that writes the reset rules only when it has a rule
\* to emit.
generate_critical_css_LazyPreamble(css_contents, critical_selectors) ==
    LET body == GenerateSheets(css_contents, 1, critical_selectors, "")
    IN  IF body = "" THEN Header ELSE Header \o Preamble \o body

generate_critical_css(css_contents, critical_selectors) ==
    GenerateSheets(css_contents, 1, critical_selectors, Header \o Preamble)

\* ------------------------------------------------------------------------
\* The document tree (BeautifulSoup)
\* ------------------------------------------------------------------------

\* A tree is [nodes, top]: nodes is the table of its nodes, a node's index being
\* its identity, and top lists the children of the BeautifulSoup object, the
\* root named '[document]', which has the identity 0.  A node is
\* [tag, attrs, parent, kids, text]; a text node (NavigableString) has the tag
\* TextTag.  attrs maps the names of the attributes present to their values: a
\* str, or a list of tokens for the multi-valued attributes class and rel.
TextTag == "#text"

StrVal(v) == [str |-> v]

ListVal(tokens) == [list |-> tokens]

NoAttrs == [ a \in {} |-> StrVal("") ]

EmptyTree == [nodes |-> << >>, top |-> << >>]

\* tag[name] = value
WithAttr(attrs, name, value) ==
    [ a \in DOMAIN attrs \cup { name } |-> IF a = name THEN value ELSE attrs[a] ]

\* tag.has_attr(name)
HasAttr(node, name) == name \in DOMAIN node.attrs

\* The tokens of a multi-valued attribute, none when it is absent; a value set as
\* a str is one token.
Tokens(node, name) ==
    IF ~HasAttr(node, name) THEN << >>
    ELSE IF "list" \in DOMAIN node.attrs[name] THEN node.attrs[name].list
    ELSE << node.attrs[name].str >>

\* The text of a str-valued attribute.
AttrStr(node, name) == node.attrs[name].str

Kids(dom, id) == IF id = 0 THEN dom.top ELSE dom.nodes[id].kids

WithKids(dom, id, kids) ==
    IF id = 0 THEN [dom EXCEPT !.top = kids]
    ELSE [dom EXCEPT !.nodes[id].kids = kids]

\* list.insert(index, x) on a 0-based index.
InsertAt(seq, index, x) ==
    LET at == IF index > Len(seq) THEN Len(seq) ELSE index
    IN  SubSeq(seq, 1, at) \o << x >> \o SubSeq(seq, at + 1, Len(seq))

\* soup.new_tag(tag) with its attributes set, inserted into parent at index: the
\* new node's identity is the next free one.
InsertNew(dom, parent, index, tag, attrs) ==
    LET id == Len(dom.nodes) + 1
        node == [tag |-> tag, attrs |-> attrs, parent |-> parent,
                 kids |-> << >>, text |-> ""]
    IN  WithKids([dom EXCEPT !.nodes = Append(dom.nodes, node)], parent,
                 InsertAt(Kids(dom, parent), index, id))

\* parent.append(new node)
AppendNew(dom, parent, tag, attrs) ==
    InsertNew(dom, parent, Len(Kids(dom, parent)), tag, attrs)

\* A text node appended to parent.
AppendText(dom, parent, text) ==
    LET id == Len(dom.nodes) + 1
        node == [tag |-> TextTag, attrs |-> NoAttrs, parent |-> parent,
                 kids |-> << >>, text |-> text]
    IN  WithKids([dom EXCEPT !.nodes = Append(dom.nodes, node)], parent,
                 Append(Kids(dom, parent), id))

\* The nodes below the given siblings, in document order.
RECURSIVE DescendantsOf(_, _)
DescendantsOf(dom, siblings) ==
    IF siblings = << >> THEN << >>
    ELSE << Head(siblings) >> \o DescendantsOf(dom, Kids(dom, Head(siblings)))
         \o DescendantsOf(dom, Tail(siblings))

IsTag(dom, id) == dom.nodes[id].tag # TextTag

\* The Tag objects of the tree in document order: what find_all() walks.
Elements(dom) == SelectSeq(DescendantsOf(dom, dom.top), LAMBDA id : IsTag(dom, id))

\* tag.string: the text of the only child when that is a text node, else None,
\* for which "" stands here: the source only tests the value for truth.
TagString(dom, id) ==
    LET kids == Kids(dom, id)
    IN  IF Len(kids) = 1 /\ ~IsTag(dom, kids[1]) THEN dom.nodes[kids[1]].text
        ELSE ""

\* str.lower()
LowerOf ==
    [ A |-> "a", B |-> "b", C |-> "c", D |-> "d", E |-> "e", F |-> "f", G |-> "g",
      H |-> "h", I |-> "i", J |-> "j", K |-> "k", L |-> "l", M |-> "m", N |-> "n",
      O |-> "o", P |-> "p", Q |-> "q", R |-> "r", S |-> "s", T |-> "t", U |-> "u",
      V |-> "v", W |-> "w", X |-> "x", Y |-> "y", Z |-> "z" ]

RECURSIVE LowerFrom(_, _)
LowerFrom(s, i) ==
    IF i > Len(s) THEN ""
    ELSE (IF Char(s, i) \in DOMAIN LowerOf THEN LowerOf[Char(s, i)] ELSE Char(s, i))
         \o LowerFrom(s, i + 1)

Lower(s) == LowerFrom(s, 1)

\* find_all(class_=lambda c: c and (w in c.lower() for some w of words)): the
\* function is tried on each token of class (and on the tokens joined by spaces,
\* which holds a word without a space only if a token does); an element with no
\* class, or with no token, does not match.
ClassHas(node, words) ==
    \E i \in DOMAIN Tokens(node, "class") :
        \E w \in words : Contains(Lower(Tokens(node, "class")[i]), w)

\* int(s): [ok, value]; ok is FALSE where int() raises ValueError.  Surrounding
\* whitespace and one sign are accepted.
DigitValue ==
    [ s \in { "0", "1", "2", "3", "4", "5", "6", "7", "8", "9" } |->
        CASE s = "0" -> 0 [] s = "1" -> 1 [] s = "2" -> 2 [] s = "3" -> 3
          [] s = "4" -> 4 [] s = "5" -> 5 [] s = "6" -> 6 [] s = "7" -> 7
          [] s = "8" -> 8 [] s = "9" -> 9 ]

RECURSIVE DigitsValue(_, _, _)
DigitsValue(s, i, acc) ==
    IF i > Len(s) THEN acc
    ELSE DigitsValue(s, i + 1, 10 * acc + DigitValue[Char(s, i)])

ParseInt(text) ==
    LET t      == Strip(text)
        signed == Char(t, 1) \in { "+", "-" }
        digits == IF signed THEN SubSeq(t, 2, Len(t)) ELSE t
        ok     == /\ digits # ""
                  /\ \A i \in 1..Len(digits) : Char(digits, i) \in DOMAIN DigitValue
    IN  IF ~ok THEN [ok |-> FALSE, value |-> 0]
        ELSE [ok |-> TRUE,
              value |-> IF Char(t, 1) = "-" THEN 0 - DigitsValue(digits, 1, 0)
                        ELSE DigitsValue(digits, 1, 0)]

\* ------------------------------------------------------------------------
\* CriticalCSSExtractor: the document functions
\* ------------------------------------------------------------------------

\* find_all(): the elements among `matching`, in document order.
FindAll(dom, matching) == SelectSeq(Elements(dom), LAMBDA id : id \in matching)

\* The nodes of a tree that pass the test of a find_all() are written
\* { id \in Ids(dom) : ... }.
Ids(dom) == DOMAIN dom.nodes

\* A slice that keeps the whole list.
FirstN_All(seq, n) == seq


\* seq[:n]
FirstN(seq, n) == SubSeq(seq, 1, IF Len(seq) < n THEN Len(seq) ELSE n)

\* The sort key of find_above_fold_elements: int(img['width']) * int(img['height']),
\* or a ValueError.
SizeKey(node) ==
    LET w == ParseInt(AttrStr(node, "width"))
        h == ParseInt(AttrStr(node, "height"))
    IN  [ok |-> w.ok /\ h.ok, value |-> w.value * h.value]

\* An insertion that puts an image ahead of the images of the same size.
RECURSIVE InsertBySize_TiesLast(_, _, _)
InsertBySize_TiesLast(dom, sorted, img) ==
    IF sorted = << >> THEN << img >>
    ELSE IF SizeKey(dom.nodes[Head(sorted)]).value > SizeKey(dom.nodes[img]).value
         THEN << Head(sorted) >> \o InsertBySize_TiesLast(dom, Tail(sorted), img)
         ELSE << img >> \o sorted

\* list.sort(key=..., reverse=True) is stable: an image goes behind the images
\* sorted so far that are at least as large.
RECURSIVE InsertBySize(_, _, _)
InsertBySize(dom, sorted, img) ==
    IF sorted = << >> THEN << img >>
    ELSE IF SizeKey(dom.nodes[Head(sorted)]).value >= SizeKey(dom.nodes[img]).value
         THEN << Head(sorted) >> \o InsertBySize(dom, Tail(sorted), img)
         ELSE << img >> \o sorted

RECURSIVE SortBySize(_, _)
SortBySize(dom, images) ==
    IF images = << >> THEN << >>
    ELSE InsertBySize(dom, SortBySize(dom, SubSeq(images, 1, Len(images) - 1)),
                      images[Len(images)])

\* find_above_fold_elements(): [raised, above_fold_elements]; raised is TRUE when
\* int() raises ValueError, and the function returns nothing.
find_above_fold_elements(dom) ==
    LET header_nav ==
            FindAll(dom, { id \in Ids(dom) : dom.nodes[id].tag \in { "header", "nav" } })
        hero_sections ==
            FindAll(dom, { id \in Ids(dom) :
                             ClassHas(dom.nodes[id], { "hero", "banner" }) })
        sections ==
            FindAll(dom, { id \in Ids(dom) :
                             /\ dom.nodes[id].tag \in { "section", "div" }
                             /\ ClassHas(dom.nodes[id], { "section" }) })
        lcp_candidates ==
            FindAll(dom, { id \in Ids(dom) : dom.nodes[id].tag = "img" })
        sized_images  == SelectSeq(lcp_candidates,
                                   LAMBDA id : /\ HasAttr(dom.nodes[id], "width")
                                               /\ HasAttr(dom.nodes[id], "height"))
        landmarks     == header_nav \o hero_sections \o FirstN(sections, 3)
    IN  IF sized_images = << >>
        THEN [raised |-> FALSE, above_fold_elements |-> landmarks]
        ELSE IF \E i \in DOMAIN sized_images : ~SizeKey(dom.nodes[sized_images[i]]).ok
        THEN [raised |-> TRUE, above_fold_elements |-> << >>]
        ELSE [raised |-> FALSE,
              above_fold_elements |->
                  Append(landmarks, SortBySize(dom, sized_images)[1])]

\* Signatures that take the BeautifulSoup object, whose name is '[document]',
\* for a parent like any other.
ElementSelectors_RootAsParent(dom, id) ==
    LET element == dom.nodes[id]
        classes == Range(Tokens(element, "class"))
        parent  == IF element.parent = 0 THEN "[document]"
                   ELSE dom.nodes[element.parent].tag
    IN  { element.tag }
        \cup { "." \o cls : cls \in classes }
        \cup { element.tag \o "." \o cls : cls \in classes }
        \cup (IF HasAttr(element, "id")
              THEN { "#" \o AttrStr(element, "id") } ELSE {})
        \cup { parent \o " " \o element.tag }
        \cup { parent \o " ." \o cls : cls \in classes }


\* The signatures extract_element_selectors adds for one element.
ElementSelectors(dom, id) ==
    LET element == dom.nodes[id]
        classes == Range(Tokens(element, "class"))
        parent  == element.parent
    IN  { element.tag }
        \cup { "." \o cls : cls \in classes }
        \cup { element.tag \o "." \o cls : cls \in classes }
        \cup (IF HasAttr(element, "id")
              THEN { "#" \o AttrStr(element, "id") } ELSE {})
        \cup (IF parent # 0
              THEN { dom.nodes[parent].tag \o " " \o element.tag }
                   \cup { dom.nodes[parent].tag \o " ." \o cls : cls \in classes }
              ELSE {})

\* extract_element_selectors(elements)
extract_element_selectors(dom, elements) ==
    UNION { ElementSelectors(dom, elements[i]) : i \in DOMAIN elements }

\* ------------------------------------------------------------------------
\* Documents
\* ------------------------------------------------------------------------

\* A document is given by a layout and a list of shapes: a shape is an element
\* [tag, attrs, text, kids], kids being shapes without kids of their own.
Shape(tag, attrs) == [tag |-> tag, attrs |-> attrs, text |-> "", kids |-> << >>]

RECURSIVE AddShapes(_, _, _)
AddShapes(dom, parent, shapes) ==
    IF shapes = << >> THEN dom
    ELSE LET shape   == Head(shapes)
             added   == AppendNew(dom, parent, shape.tag, shape.attrs)
             id      == Len(added.nodes)
             texted  == IF shape.text # "" THEN AppendText(added, id, shape.text)
                        ELSE added
         IN  AddShapes(AddShapes(texted, id, shape.kids), parent, Tail(shapes))

InHead(shape) == shape.tag \in { "link", "style", "script" }

\* The tree html.parser builds: of the shapes alone ("bare"), of the shapes in
\* <html><body> with no head ("html"), or of <html><head><body> with the links,
\* styles and scripts in head ("full").
Page(layout, shapes) ==
    IF layout = "bare" THEN AddShapes(EmptyTree, 0, shapes)
    ELSE LET html == AppendNew(EmptyTree, 0, "html", NoAttrs)
         IN  IF layout = "html"
             THEN AddShapes(AppendNew(html, 1, "body", NoAttrs), 2, shapes)
             ELSE LET head == AddShapes(AppendNew(html, 1, "head", NoAttrs), 2,
                                        SelectSeq(shapes, InHead))
                      body == AppendNew(head, 1, "body", NoAttrs)
                  IN  AddShapes(body, Len(body.nodes),
                                SelectSeq(shapes, LAMBDA sh : ~InHead(sh)))

RECURSIVE ShapeLists(_, _)
ShapeLists(shapes, n) ==
    IF n = 0 THEN { << >> }
    ELSE LET shorter == ShapeLists(shapes, n - 1)
         IN  shorter \cup { Append(l, x) : l \in shorter, x \in shapes }

Img(src, width, height) ==
    Shape("img", [src |-> StrVal(src), width |-> StrVal(width),
                  height |-> StrVal(height)])

\* ------------------------------------------------------------------------
\* The document functions applied on their own (specification SpecFold)
\* ------------------------------------------------------------------------

FoldShapes ==
    { Shape("header", [class |-> ListVal(<< "site-head" >>)]),
      [ Shape("header", [class |-> ListVal(<< "Hero" >>)])
          EXCEPT !.kids = << Shape("nav", NoAttrs) >> ],
      Shape("div", [class |-> ListVal(<< "banner", "section-a" >>),
                    id |-> StrVal("top")]),
      Shape("section", [class |-> ListVal(<< "section" >>)]),
      Img("a.png", "100", "100"),
      Img("b.png", "500", "50"),
      Img("c.png", "50", "200"),
      Shape("img", [src |-> StrVal("d.png")]),
      Shape("img", [src |-> StrVal("e.png"), width |-> StrVal("900")]),
      Img("f.png", "100%", "50") }

FoldLayouts == { "bare", "html" }

InitFold ==
    /\ pc = "fold_start"
    /\ \E layout \in FoldLayouts, shapes \in ShapeLists(FoldShapes, MaxElems) :
          arg = [ dom |-> Page(layout, shapes) ]
    /\ ret = None
    /\ PipelineIdle

\* find_above_fold_elements()
FindAboveFold ==
    /\ pc = "fold_start"
    /\ ret' = find_above_fold_elements(arg.dom)
    /\ pc' = IF ret'.raised THEN "fold_raised" ELSE "fold_found"
    /\ UNCHANGED << arg, world, ext, loc, site >>

\* extract_element_selectors(above_fold_elements)
ExtractElementSelectors ==
    /\ pc = "fold_found"
    /\ ret' = [ raised |-> FALSE,
                above_fold_elements |-> ret.above_fold_elements,
                element_selectors |->
                    extract_element_selectors(arg.dom, ret.above_fold_elements) ]
    /\ pc' = "fold_done"
    /\ UNCHANGED << arg, world, ext, loc, site >>

NextFold == FindAboveFold \/ ExtractElementSelectors

SpecFold == InitFold /\ [][NextFold]_vars

\* Python iterates over a set in an order that depends on the hashes of its
\* members, which differ from process to process: SetOrder(S, seed) is the order
\* of the process with hash seed `seed`.
RECURSIVE SetToSeq(_)
SetToSeq(S) ==
    IF S = {} THEN << >>
    ELSE LET x == CHOOSE y \in S : TRUE
         IN  << x >> \o SetToSeq(S \ { x })

Reverse(seq) == [ i \in DOMAIN seq |-> seq[Len(seq) + 1 - i] ]

SetOrder(S, seed) == IF seed = 0 THEN SetToSeq(S) ELSE Reverse(SetToSeq(S))

HashSeeds == { 0, 1 }

\* ------------------------------------------------------------------------
\* The network
\* ------------------------------------------------------------------------

\* The URL handed to the extractor and to the optimizer.
PageUrl == "https://site.test/"

\* urljoin(base, href) for the base PageUrl: an href with a scheme stands as it
\* is, a file name is resolved against the base.
UrlJoin(base, href) == IF Contains(href, "://") THEN href ELSE base \o href

\* requests.get(css_url) of the stylesheets of the network: [ok, text]; ok is
\* FALSE when the request raises (a connection error, a 404 status).
SheetAt(css_url) ==
    CASE css_url = "https://site.test/a.css" ->
            [ok |-> TRUE, text |-> "header{color:red}.foo{color:blue}"]
      [] css_url = "https://cdn.test/b.css" ->
            [ok |-> TRUE, text |-> ".hero, nav:hover {m:0} @media x{ a{b:c} }"]
      [] OTHER -> [ok |-> FALSE, text |-> ""]

\* str(i)
DigitStr == << "0", "1", "2", "3", "4", "5", "6", "7", "8", "9" >>

RECURSIVE IntStr(_)
IntStr(i) ==
    IF i < 10 THEN DigitStr[i + 1] ELSE IntStr(i \div 10) \o DigitStr[(i % 10) + 1]

\* ------------------------------------------------------------------------
\* CriticalCSSExtractor: the object and extract_critical_css
\* ------------------------------------------------------------------------

\* One item of the dict self.css_contents.
Sheet(key, content) == [key |-> key, content |-> content]

\* CriticalCSSExtractor(url): self.css_contents, a dict, is the sequence of its
\* [key, content] in insertion order.
NewCriticalCSSExtractor(url) ==
    [url |-> url, dom |-> None, css_files |-> << >>, css_contents |-> << >>]

\* d[key] = content: a new key goes last, a key already there keeps its place.
DictPut(d, key, content) ==
    IF \E n \in DOMAIN d : d[n].key = key
    THEN [ n \in DOMAIN d |-> IF d[n].key = key THEN Sheet(key, content) ELSE d[n] ]
    ELSE Append(d, Sheet(key, content))

\* fetch_page(): [self, ok].  net is the network: net.page_ok tells whether
\* the request for the page succeeds, net.dom is the tree html.parser builds
\* of its text.
fetch_page(self, net) ==
    IF net.page_ok THEN [self |-> [self EXCEPT !.dom = net.dom], ok |-> TRUE]
    ELSE [self |-> self, ok |-> FALSE]

\* find_all('link', rel='stylesheet'): rel is multi-valued, one token has to be
\* 'stylesheet'.
IsStylesheetLink(node) ==
    /\ node.tag = "link"
    /\ \E i \in DOMAIN Tokens(node, "rel") : Tokens(node, "rel")[i] = "stylesheet"

\* The first loop of extract_css_files, over the stylesheet links.
RECURSIVE CollectLinks(_, _, _)
CollectLinks(self, css_links, n) ==
    IF n > Len(css_links) THEN self
    ELSE LET link == self.dom.nodes[css_links[n]]
         IN  CollectLinks(
                 IF HasAttr(link, "href")
                 THEN [self EXCEPT !.css_files =
                          Append(@, UrlJoin(self.url, AttrStr(link, "href")))]
                 ELSE self,
                 css_links, n + 1)

\* The second loop of extract_css_files, over enumerate(style_tags): n - 1 is i.
RECURSIVE CollectStyles(_, _, _)
CollectStyles(self, style_tags, n) ==
    IF n > Len(style_tags) THEN self
    ELSE LET string     == TagString(self.dom, style_tags[n])
             inline_key == "inline-" \o IntStr(n - 1)
         IN  CollectStyles(
                 IF string # ""
                 THEN [self EXCEPT !.css_files = Append(@, inline_key),
                                   !.css_contents = DictPut(@, inline_key, string)]
                 ELSE self,
                 style_tags, n + 1)

\* extract_css_files(), called with the page fetched.
extract_css_files(self) ==
    LET dom        == self.dom
        css_links  == FindAll(dom, { id \in Ids(dom) : IsStylesheetLink(dom.nodes[id]) })
        style_tags == FindAll(dom, { id \in Ids(dom) : dom.nodes[id].tag = "style" })
    IN  CollectStyles(CollectLinks(self, css_links, 1), style_tags, 1)

\* A loop that gives up at the first stylesheet it cannot fetch.
RECURSIVE FetchSheets_StopAtFailure(_, _)
FetchSheets_StopAtFailure(self, n) ==
    IF n > Len(self.css_files) THEN self
    ELSE LET css_url == self.css_files[n]
         IN  IF StartsWith(css_url, "inline-")
             THEN FetchSheets_StopAtFailure(self, n + 1)
             ELSE IF SheetAt(css_url).ok
             THEN FetchSheets_StopAtFailure(
                      [self EXCEPT !.css_contents =
                          DictPut(@, css_url, SheetAt(css_url).text)], n + 1)
             ELSE self


\* The loop of fetch_css_contents() over self.css_files.
RECURSIVE FetchSheets(_, _)
FetchSheets(self, n) ==
    IF n > Len(self.css_files) THEN self
    ELSE LET css_url == self.css_files[n]
         IN  IF StartsWith(css_url, "inline-") THEN FetchSheets(self, n + 1)
             ELSE IF SheetAt(css_url).ok
             THEN FetchSheets([self EXCEPT !.css_contents =
                                  DictPut(@, css_url, SheetAt(css_url).text)], n + 1)
             ELSE FetchSheets(self, n + 1)

fetch_css_contents(self) == FetchSheets(self, 1)

\* The loop of extract_critical_css over self.css_contents.
RECURSIVE CriticalOfSheets(_, _, _, _)
CriticalOfSheets(css_contents, n, order, all_critical_selectors) ==
    IF n > Len(css_contents) THEN all_critical_selectors
    ELSE CriticalOfSheets(css_contents, n + 1, order,
             all_critical_selectors
                 \cup match_selectors(order, parse_css(css_contents[n].content)))

\* extract_critical_css's test "not self.css_files".
NeedsCssFiles(self) == self.css_files = << >>

\* extract_critical_css(): [self, raised, critical_css]; raised is TRUE when the
\* call ends with an exception instead of a value.  seed is the hash seed of the
\* process, which orders the set of element selectors.
extract_critical_css(self0, net, seed) ==
    LET fetched == IF self0.dom = None THEN fetch_page(self0, net)
                   ELSE [self |-> self0, ok |-> TRUE]
        self1   == fetched.self
        self2   == IF NeedsCssFiles(self1)
                   THEN fetch_css_contents(extract_css_files(self1))
                   ELSE self1
        found   == find_above_fold_elements(self2.dom)
        element_selectors ==
            extract_element_selectors(self2.dom, found.above_fold_elements)
        all_critical_selectors ==
            CriticalOfSheets(self2.css_contents, 1,
                             SetOrder(element_selectors, seed), {})
    IN  IF ~fetched.ok
        THEN [self |-> self1, raised |-> FALSE, critical_css |-> ""]
        ELSE IF found.raised
        THEN [self |-> self2, raised |-> TRUE, critical_css |-> ""]
        ELSE [self |-> self2, raised |-> FALSE,
              critical_css |->
                  generate_critical_css(self2.css_contents, all_critical_selectors)]

\* ------------------------------------------------------------------------
\* The extractor at work (specification SpecExtract)
\* ------------------------------------------------------------------------

StylesheetLink(href) ==
    Shape("link", [rel |-> ListVal(<< "stylesheet" >>), href |-> StrVal(href)])

Style(text) == [ Shape("style", NoAttrs) EXCEPT !.text = text ]

ExtractShapes ==
    { StylesheetLink("a.css"),
      StylesheetLink("https://cdn.test/b.css"),
      StylesheetLink("https://cdn.test/gone.css"),
      Style("nav a:hover, .foo{x:y}@media p{.site-head{z:w}}"),
      Style(""),
      Shape("header", [class |-> ListVal(<< "site-head" >>)]),
      [ Shape("div", [class |-> ListVal(<< "hero" >>)])
          EXCEPT !.kids = << Shape("nav", NoAttrs) >> ],
      Img("a.png", "10", "10"),
      Img("f.png", "100%", "50") }

ExtractLayouts == { "bare", "full" }

\* The pages the URL may serve, and a URL that cannot be fetched.
ExtractNetworks ==
    { [page_ok |-> TRUE, dom |-> Page(layout, shapes)] :
        layout \in ExtractLayouts, shapes \in ShapeLists(ExtractShapes, MaxPageElems) }
    \cup { [page_ok |-> FALSE, dom |-> None] }

\* loc lists the calls of extract_critical_css made so far: of each, whether the
\* extractor was fresh, whether the call raised, and the text it returned.
InitExtract ==
    /\ pc = "extract"
    /\ world \in ExtractNetworks
    /\ ext = None
    /\ loc = << >>
    /\ arg = None
    /\ ret = None
    /\ site = None

\* CriticalCSSExtractor(url): a fresh extractor replaces the one in use.
NewExtractor ==
    /\ pc = "extract"
    /\ ext = None \/ Len(loc) > 0
    /\ Len(loc) < MaxCalls
    /\ ext' = NewCriticalCSSExtractor(PageUrl)
    /\ UNCHANGED << pc, arg, ret, world, loc, site >>

\* extractor.extract_critical_css(), in a process with some hash seed.
ExtractCriticalCss ==
    /\ pc = "extract"
    /\ ext # None
    /\ Len(loc) < MaxCalls
    /\ \E seed \in HashSeeds :
          LET call == extract_critical_css(ext, world, seed)
          IN  /\ ext' = call.self
              /\ loc' = Append(loc, [fresh |-> ext = NewCriticalCSSExtractor(PageUrl),
                                     raised |-> call.raised,
                                     critical_css |-> call.critical_css])
    /\ UNCHANGED << pc, arg, ret, world, site >>

NextExtract == NewExtractor \/ ExtractCriticalCss

SpecExtract == InitExtract /\ [][NextExtract]_vars

\* ------------------------------------------------------------------------
\* The stylesheet functions applied on their own (specification SpecCss)
\* ------------------------------------------------------------------------

CssChunks ==
    { "header{color:red}", ".foo{color:blue}", "@media x{", "}",
      "a, @b {c:d; ;e}", " h1:hover , .hero {m:0}", "@font-face{f:g}" }

RECURSIVE CssTexts(_)
CssTexts(n) ==
    IF n = 0 THEN { "" }
    ELSE LET shorter == CssTexts(n - 1)
         IN  shorter \cup { t \o c : t \in shorter, c \in CssChunks }

\* One inline stylesheet, or an inline one and an external one.
CssContents ==
    { << Sheet("inline-0", t) >> : t \in CssTexts(MaxChunks) }
    \cup { << Sheet("inline-0", t), Sheet("https://site.test/b.css", u) >> :
             t \in CssTexts(MaxChunks - 1), u \in CssTexts(1) }

\* The selectors a critical set is drawn from: those of the stylesheets, and
\* two that no stylesheet needs to hold.
CriticalPool(css_contents) ==
    UNION { Range(parse_css(css_contents[n].content)) : n \in DOMAIN css_contents }
    \cup { "@media x", "nope" }

CriticalSets(css_contents) ==
    { S \in SUBSET CriticalPool(css_contents) : Cardinality(S) <= MaxCrit }

InitCss ==
    /\ pc = "css_start"
    /\ arg \in [ css_contents : CssContents ]
    /\ ret = None
    /\ PipelineIdle

\* parse_css applied to every stylesheet.
ParseCss ==
    /\ pc = "css_start"
    /\ ret' = [ selectors |-> [ n \in DOMAIN arg.css_contents |->
                                  parse_css(arg.css_contents[n].content) ] ]
    /\ pc' = "css_parsed"
    /\ UNCHANGED << arg, world, ext, loc, site >>

\* generate_critical_css applied to a set of critical selectors.
GenerateCss ==
    /\ pc = "css_parsed"
    /\ \E critical_selectors \in CriticalSets(arg.css_contents) :
          ret' = [ selectors |-> ret.selectors,
                   critical_selectors |-> critical_selectors,
                   critical_css |-> generate_critical_css(arg.css_contents,
                                                          critical_selectors) ]
    /\ pc' = "css_generated"
    /\ UNCHANGED << arg, world, ext, loc, site >>

NextCss == ParseCss \/ GenerateCss

SpecCss == InitCss /\ [][NextCss]_vars

\* ------------------------------------------------------------------------
\* match_selectors applied on its own (specification SpecMatch)
\* ------------------------------------------------------------------------

\* Signatures: those of <header class="site-head">, and others.
SignaturePool == { "header", ".site-head", "header.site-head", "a", "nav .hero" }

SelectorPool ==
    { "header", ".foo", "header:hover", "nav .hero::after", "a:not(.site-head)" }

RECURSIVE SelectorLists(_)
SelectorLists(n) ==
    IF n = 0 THEN { << >> }
    ELSE LET shorter == SelectorLists(n - 1)
         IN  shorter \cup { Append(l, x) : l \in shorter, x \in SelectorPool }

\* Two signature sets, the first a subset of the second, a list of selectors and
\* the hash seed of the process.
InitMatch ==
    /\ pc = "match_start"
    /\ \E S \in SUBSET SignaturePool, T \in SUBSET SignaturePool,
          css_selectors \in SelectorLists(MaxSelectors), seed \in HashSeeds :
          arg = [ signatures |-> S, more_signatures |-> S \cup T,
                  css_selectors |-> css_selectors, seed |-> seed ]
    /\ ret = None
    /\ PipelineIdle

\* match_selectors applied to both signature sets.
MatchSelectors ==
    /\ pc = "match_start"
    /\ ret' = [ matching |->
                    match_selectors(SetOrder(arg.signatures, arg.seed),
                                    arg.css_selectors),
                more_matching |->
                    match_selectors(SetOrder(arg.more_signatures, arg.seed),
                                    arg.css_selectors) ]
    /\ pc' = "match_done"
    /\ UNCHANGED << arg, world, ext, loc, site >>

NextMatch == MatchSelectors

SpecMatch == InitMatch /\ [][NextMatch]_vars

\* ------------------------------------------------------------------------
\* str(tree) and BeautifulSoup(text, 'html.parser')
\* ------------------------------------------------------------------------

\* The elements that have no end tag: str() writes one <name/> when it has no
\* children, and the tree builder closes it as soon as it opens.
VoidElements ==
    { "area", "base", "br", "col", "embed", "hr", "img", "input", "link", "meta",
      "param", "source", "track", "wbr" }

\* The elements whose content is raw text: html.parser reads it up to the end
\* tag, and str() writes it without entities.
CdataElements == { "script", "style" }

\* The least index j >= i with s[j] in chars, or Len(s) + 1.
Scan(s, chars, i) ==
    LET hits == { j \in i..Len(s) : Char(s, j) \in chars }
    IN  IF hits = {} THEN Len(s) + 1 ELSE CHOOSE j \in hits : \A k \in hits : j <= k

\* The least index j >= i with s[j] not in chars, or Len(s) + 1.
Skip(s, chars, i) ==
    LET hits == { j \in i..Len(s) : Char(s, j) \notin chars }
    IN  IF hits = {} THEN Len(s) + 1 ELSE CHOOSE j \in hits : \A k \in hits : j <= k

\* Whether p stands in s at index i.
At(s, i, p) == i + Len(p) - 1 <= Len(s) /\ SubSeq(s, i, i + Len(p) - 1) = p

\* The least index j >= i where sub stands in s, or Len(s) + 1.
Find(s, sub, i) ==
    LET hits == { j \in i..Len(s) : At(s, j, sub) }
    IN  IF hits = {} THEN Len(s) + 1 ELSE CHOOSE j \in hits : \A k \in hits : j <= k

\* sep.join(seq)
RECURSIVE JoinWith(_, _)
JoinWith(seq, sep) ==
    IF seq = << >> THEN ""
    ELSE IF Len(seq) = 1 THEN seq[1]
    ELSE seq[1] \o sep \o JoinWith(Tail(seq), sep)

\* s.split(): the runs of s without whitespace.
RECURSIVE Words(_, _)
Words(s, i) ==
    LET b == Skip(s, Whitespace, i)
        e == Scan(s, Whitespace, b)
    IN  IF b > Len(s) THEN << >> ELSE << SubSeq(s, b, e - 1) >> \o Words(s, e)

\* The characters of s from i on, each character of DOMAIN entity replaced by
\* its entity.
RECURSIVE Substitute(_, _, _)
Substitute(s, entity, i) ==
    LET j == Scan(s, DOMAIN entity, i)
    IN  IF j > Len(s) THEN SubSeq(s, i, Len(s))
        ELSE SubSeq(s, i, j - 1) \o entity[Char(s, j)] \o Substitute(s, entity, j + 1)

\* The entities of the formatter "minimal", which str() uses.
MinimalEntities ==
    [ c \in { "&", "<", ">" } |->
        CASE c = "&" -> "&amp;" [] c = "<" -> "&lt;" [] c = ">" -> "&gt;" ]

\* The entities html.parser turns back into characters: those str() writes.
KnownEntities == << "&amp;", "&lt;", "&gt;", "&quot;" >>

EntityChar == << "&", "<", ">", "\"" >>

\* The characters of s from i on with the entities turned back into characters.
RECURSIVE Unescape(_, _)
Unescape(s, i) ==
    LET j == Scan(s, { "&" }, i)
        known == { n \in DOMAIN KnownEntities : At(s, j, KnownEntities[n]) }
    IN  IF j > Len(s) THEN SubSeq(s, i, Len(s))
        ELSE IF known = {} THEN SubSeq(s, i, j) \o Unescape(s, j + 1)
        ELSE LET n == CHOOSE m \in known : TRUE
             IN  SubSeq(s, i, j - 1) \o EntityChar[n]
                 \o Unescape(s, j + Len(KnownEntities[n]))

\* An attribute value as str() writes it: in double quotes, or in single quotes
\* when it holds a double quote and no single one.
Quoted(value) ==
    IF ~Contains(value, "\"") THEN "\"" \o value \o "\""
    ELSE IF Contains(value, "'")
    THEN "\"" \o Substitute(value, [ c \in { "\"" } |-> "&quot;" ], 1) \o "\""
    ELSE "'" \o value \o "'"

\* The attributes of a start tag as str() writes them.  A dict keeps the order
\* in which its keys were set, which the table attrs does not record: they are
\* written in one fixed order, which changes neither the length of the text
\* nor the tree that is parsed from it.
RECURSIVE AttrsText(_, _)
AttrsText(attrs, names) ==
    IF names = << >> THEN ""
    ELSE LET value == attrs[Head(names)]
             text  == IF "list" \in DOMAIN value THEN JoinWith(value.list, " ")
                      ELSE value.str
         IN  " " \o Head(names) \o "=" \o Quoted(Substitute(text, MinimalEntities, 1))
             \o AttrsText(attrs, Tail(names))

\* tag.decode() of each of the siblings, concatenated.
RECURSIVE Decode(_, _)
Decode(dom, siblings) ==
    IF siblings = << >> THEN ""
    ELSE LET node == dom.nodes[Head(siblings)]
             raw  == node.parent # 0 /\ dom.nodes[node.parent].tag \in CdataElements
             open == "<" \o node.tag
                     \o AttrsText(node.attrs, SetToSeq(DOMAIN node.attrs))
             this == IF node.tag = TextTag
                     THEN IF raw THEN node.text
                          ELSE Substitute(node.text, MinimalEntities, 1)
                     ELSE IF node.tag \in VoidElements /\ node.kids = << >>
                     THEN open \o "/>"
                     ELSE open \o ">" \o Decode(dom, node.kids)
                          \o "</" \o node.tag \o ">"
         IN  this \o Decode(dom, Tail(siblings))

\* str(dom), of a tree or of None.
Str(dom) == IF dom = None THEN "None" ELSE Decode(dom, dom.top)

\* The attributes of a start tag from index i on: [attrs, next, closed]; next is
\* the index behind '>' and closed tells whether the tag ends with '/>'.  A
\* name is lowered, a value stands in quotes or runs to the next whitespace, an
\* attribute without a value has the value '', and of an attribute given twice
\* the last value stays.
RECURSIVE ParseAttrs(_, _, _)
ParseAttrs(s, i, attrs) ==
    LET j == Skip(s, Whitespace, i)
        c == Char(s, j)
        e == Scan(s, Whitespace \cup { "=", ">", "/" }, j)
        name == Lower(SubSeq(s, j, e - 1))
        q == Char(s, e + 1)
        close == Scan(s, { q }, e + 2)
        u == Scan(s, Whitespace \cup { ">" }, e + 1)
    IN  IF j > Len(s) \/ c = ">"
        THEN [attrs |-> attrs, next |-> j + 1, closed |-> Char(s, j - 1) = "/"]
        ELSE IF c = "/" THEN ParseAttrs(s, j + 1, attrs)
        ELSE IF Char(s, e) # "="
        THEN ParseAttrs(s, e, WithAttr(attrs, name, StrVal("")))
        ELSE IF q \in { "\"", "'" }
        THEN ParseAttrs(s, close + 1,
                 WithAttr(attrs, name,
                          StrVal(Unescape(SubSeq(s, e + 2, close - 1), 1))))
        ELSE ParseAttrs(s, u, WithAttr(attrs, name, StrVal(SubSeq(s, e + 1, u - 1))))

\* The multi-valued attributes: their value is parsed into the list of its
\* words.
MultiValued(tag, attrs) ==
    [ a \in DOMAIN attrs |->
        IF a = "class" \/ (a = "rel" /\ tag \in { "a", "link" })
        THEN ListVal(Words(attrs[a].str, 1)) ELSE attrs[a] ]

\* _popToTag(name): the open elements down to the innermost one named name are
\* closed; none is when no open element has that name.  stack lists the open
\* elements, the root first.
PopToTag(dom, stack, name) ==
    LET open == { k \in 2..Len(stack) : dom.nodes[stack[k]].tag = name }
    IN  IF open = {} THEN stack
        ELSE SubSeq(stack, 1, (CHOOSE k \in open : \A m \in open : m <= k) - 1)

\* A text made of whitespace only is kept as one newline or one space.
Collapse(data) ==
    IF Skip(data, Whitespace, 1) <= Len(data) THEN data
    ELSE IF Contains(data, "\n") THEN "\n" ELSE " "

\* BeautifulSoupHTMLParser.feed() from index i on.  b is the tree builder:
\* [dom, stack, already_closed]; already_closed lists the void elements that
\* were closed as they opened, whose end tag, if one comes, is dropped.
RECURSIVE Feed(_, _, _)
Feed(s, i, b) ==
    IF i > Len(s) THEN b.dom
    ELSE LET current == b.stack[Len(b.stack)]
             gt      == Scan(s, { ">" }, i + 2)
             ended   == Lower(Strip(SubSeq(s, i + 2, gt - 1)))
             dropped == CHOOSE n \in DOMAIN b.already_closed :
                            b.already_closed[n] = ended
             e       == Scan(s, Whitespace \cup { ">", "/" }, i + 1)
             tag     == Lower(SubSeq(s, i + 1, e - 1))
             rest    == ParseAttrs(s, e, NoAttrs)
             opened  == AppendNew(b.dom, current, tag, MultiValued(tag, rest.attrs))
             id      == Len(opened.nodes)
             reopen  == CHOOSE n \in DOMAIN b.already_closed :
                            b.already_closed[n] = tag
             cend    == Find(s, "</" \o tag, rest.next)
             lt      == Scan(s, { "<" }, i + 1)
         IN  IF At(s, i, "</")
             THEN IF ended \in Range(b.already_closed)
                  THEN Feed(s, gt + 1,
                            [b EXCEPT !.already_closed =
                                SubSeq(@, 1, dropped - 1)
                                \o SubSeq(@, dropped + 1, Len(@))])
                  ELSE Feed(s, gt + 1,
                            [b EXCEPT !.stack = PopToTag(b.dom, b.stack, ended)])
             ELSE IF Char(s, i) = "<" /\ Char(s, i + 1) \in Letters
             THEN IF rest.closed
                  THEN IF tag \in Range(b.already_closed)
                       THEN Feed(s, rest.next,
                                 [dom |-> opened, stack |-> Append(b.stack, id),
                                  already_closed |->
                                      SubSeq(b.already_closed, 1, reopen - 1)
                                      \o SubSeq(b.already_closed, reopen + 1,
                                                Len(b.already_closed))])
                       ELSE Feed(s, rest.next, [b EXCEPT !.dom = opened])
                  ELSE IF tag \in VoidElements
                  THEN Feed(s, rest.next,
                            [b EXCEPT !.dom = opened,
                                      !.already_closed = Append(@, tag)])
                  ELSE IF tag \in CdataElements
                  THEN Feed(s, cend,
                            [b EXCEPT !.dom = IF cend > rest.next
                                              THEN AppendText(opened, id,
                                                       SubSeq(s, rest.next, cend - 1))
                                              ELSE opened,
                                      !.stack = Append(@, id)])
                  ELSE Feed(s, rest.next,
                            [b EXCEPT !.dom = opened, !.stack = Append(@, id)])
             ELSE Feed(s, lt,
                       [b EXCEPT !.dom =
                           AppendText(b.dom, current,
                                      Collapse(Unescape(SubSeq(s, i, lt - 1), 1)))])

\* BeautifulSoup(markup, 'html.parser')
Parse(markup) ==
    Feed(markup, 1, [dom |-> EmptyTree, stack |-> << 0 >>, already_closed |-> << >>])

\* ------------------------------------------------------------------------
\* Tag objects
\* ------------------------------------------------------------------------

\* d[key] = value on a dict
With(d, key, value) ==
    [ k \in DOMAIN d \cup { key } |-> IF k = key THEN value ELSE d[k] ]

\* tag[name] = value
SetAttr(dom, id, name, value) ==
    [dom EXCEPT !.nodes[id].attrs = WithAttr(@, name, value)]

\* The place of x in seq.
IndexIn(seq, x) == CHOOSE k \in DOMAIN seq : seq[k] = x

\* Tag.__eq__: two tags are equal when they have the same name, the same
\* attributes and equal children, in whatever trees they stand; two strings when
\* they have the same text.
RECURSIVE TagEq(_, _, _, _)
TagEq(dom, id, other_dom, other) ==
    LET x == dom.nodes[id]
        y == other_dom.nodes[other]
    IN  /\ x.tag = y.tag
        /\ IF x.tag = TextTag THEN x.text = y.text
           ELSE /\ x.attrs = y.attrs
                /\ Len(x.kids) = Len(y.kids)
                /\ \A k \in DOMAIN x.kids :
                       TagEq(dom, x.kids[k], other_dom, y.kids[k])

\* ------------------------------------------------------------------------
\* The network and the output directory of the optimizer
\* ------------------------------------------------------------------------

\* urlparse(url).netloc
Netloc(url) ==
    LET p == Find(url, "://", 1)
    IN  IF p > Len(url) THEN ""
        ELSE SubSeq(url, p + 3, Scan(url, { "/", "?", "#" }, p + 3) - 1)

\* urlparse(url).path
UrlPath(url) ==
    LET p     == Find(url, "://", 1)
        start == IF p > Len(url) THEN 1 ELSE Scan(url, { "/", "?", "#" }, p + 3)
    IN  SubSeq(url, start, Scan(url, { "?", "#" }, start) - 1)

\* os.path.basename(path)
Basename(path) ==
    LET slashes == { j \in 1..Len(path) : Char(path, j) = "/" }
    IN  IF slashes = {} THEN path
        ELSE SubSeq(path, (CHOOSE j \in slashes : \A k \in slashes : k <= j) + 1,
                    Len(path))

\* os.path.splitext(name)[0]
Stem(name) ==
    LET dots == { j \in 2..Len(name) : Char(name, j) = "." }
    IN  IF dots = {} THEN name
        ELSE SubSeq(name, 1, (CHOOSE j \in dots : \A k \in dots : k <= j) - 1)

\* requests.get(url) of a resource: [status, content]; the status 0 stands for
\* a request that raises.  An image file has the size PIL reads from it, its
\* length in bytes and the length of the WebP file PIL saves of it.
FileAt(url) ==
    CASE SheetAt(url).ok ->
            [status |-> 200, content |-> [kind |-> "text", text |-> SheetAt(url).text]]
      [] url = "https://site.test/app.js" ->
            [status |-> 200, content |-> [kind |-> "text", text |-> "run()"]]
      [] url = "https://cdn.test/lib.js" ->
            [status |-> 200, content |-> [kind |-> "text", text |-> "lib()"]]
      [] url = "https://site.test/a.png" ->
            [status |-> 200,
             content |-> [kind |-> "image", size |-> << 640, 480 >>,
                          bytes |-> 9000, webp |-> 4000]]
      [] url = "https://site.test/hero.jpg" ->
            [status |-> 200,
             content |-> [kind |-> "image", size |-> << 1200, 600 >>,
                          bytes |-> 5000, webp |-> 7000]]
      [] url = "https://site.test/gone.png" ->
            [status |-> 404, content |-> [kind |-> "text", text |-> "Not Found"]]
      [] OTHER -> [status |-> 0, content |-> [kind |-> "text", text |-> ""]]

\* The network of the optimizer is [dom, down, requests, files]: dom is the tree
\* html.parser builds of the page behind the URL, requests counts the requests
\* for the page made so far, of which those numbered in down fail, and files is
\* the output directory, a table from paths to contents.
Serve(net) == [page_ok |-> (net.requests + 1) \notin net.down, dom |-> net.dom]

Requested(net) == [net EXCEPT !.requests = @ + 1]

\* ------------------------------------------------------------------------
\* SiteOptimizer
\* ------------------------------------------------------------------------

\* The trees the process holds are listed in trees; a tree is referred to by its
\* place in the list, and 0 refers to no tree (None).  self.dom is such a
\* reference, and the 'element' of a resource is a node of the tree self.dom.
Allocate(trees, tree) == [trees |-> Append(trees, tree), ref |-> Len(trees) + 1]

ResourceTypes == << "css", "js", "images", "fonts" >>

\* SiteOptimizer(url, output_dir): the fields the transform reads or writes
\* (original_html and the two scores are written and never read by it).  A
\* resource is a dict with 'url' and 'element', to which the later steps add
\* 'local_path', 'width', 'height', 'webp_path', 'optimized_path' and 'savings'.
NewSiteOptimizer(url) ==
    [ url |-> url,
      dom |-> 0,
      resources |-> [ css |-> << >>, js |-> << >>, images |-> << >>, fonts |-> << >> ],
      optimized_resources |->
          [ css |-> << >>, js |-> << >>, images |-> << >>, fonts |-> << >> ],
      applied_optimizations |-> << >> ]

\* fetch_original_site(): [self, trees, ok]
fetch_original_site(self, trees, net) ==
    IF net.page_ok
    THEN LET soup == Allocate(trees, net.dom)
         IN  [self |-> [self EXCEPT !.dom = soup.ref], trees |-> soup.trees,
              ok |-> TRUE]
    ELSE [self |-> self, trees |-> trees, ok |-> FALSE]

\* The resources extract_resources appends for the elements found, those that
\* have the attribute attr (href or src).
ResourcesOf(url, dom, elements, attr) ==
    LET kept == SelectSeq(elements, LAMBDA id : HasAttr(dom.nodes[id], attr))
    IN  [ n \in DOMAIN kept |->
            [ url |-> UrlJoin(url, AttrStr(dom.nodes[kept[n]], attr)),
              element |-> kept[n] ] ]

\* find_all('link', rel=lambda r: r and 'font' in r): the function is tried on
\* each token of rel.
IsFontLink(node) ==
    /\ node.tag = "link"
    /\ \E i \in DOMAIN Tokens(node, "rel") : Contains(Tokens(node, "rel")[i], "font")

\* extract_resources(), called with a tree in self.dom.
extract_resources(self, dom) ==
    LET css_links  == FindAll(dom, { id \in Ids(dom) : IsStylesheetLink(dom.nodes[id]) })
        scripts    == FindAll(dom, { id \in Ids(dom) : dom.nodes[id].tag = "script" })
        images     == FindAll(dom, { id \in Ids(dom) : dom.nodes[id].tag = "img" })
        font_links == FindAll(dom, { id \in Ids(dom) : IsFontLink(dom.nodes[id]) })
    IN  [self EXCEPT
            !.resources.css    = @ \o ResourcesOf(self.url, dom, css_links, "href"),
            !.resources.js     = @ \o ResourcesOf(self.url, dom, scripts, "src"),
            !.resources.images = @ \o ResourcesOf(self.url, dom, images, "src"),
            !.resources.fonts  = @ \o ResourcesOf(self.url, dom, font_links, "href")]

\* The loop of download_resources over the resources of one type, from the n-th
\* on.  st is [resources, files].  hash(url), which names a file whose URL has
\* no file name, stands as the URL itself.
RECURSIVE DownloadType(_, _, _)
DownloadType(st, resource_type, n) ==
    IF n > Len(st.resources[resource_type]) THEN st
    ELSE LET resource == st.resources[resource_type][n]
             response == FileAt(resource.url)
             basename == Basename(UrlPath(resource.url))
             filename == IF basename = "" THEN "resource_" \o resource.url
                         ELSE basename
             resource_path == resource_type \o "/" \o filename
         IN  DownloadType(
                 IF response.status = 200
                 THEN [ resources |->
                            [st.resources EXCEPT ![resource_type][n] =
                                With(@, "local_path", resource_path)],
                        files |-> With(st.files, resource_path, response.content) ]
                 ELSE st,
                 resource_type, n + 1)

\* The loop of download_resources over the types, from the t-th on.
RECURSIVE DownloadTypes(_, _)
DownloadTypes(st, t) ==
    IF t > Len(ResourceTypes) THEN st
    ELSE DownloadTypes(DownloadType(st, ResourceTypes[t], 1), t + 1)

\* download_resources(): [resources, files]
download_resources(self, files) ==
    DownloadTypes([resources |-> self.resources, files |-> files], 1)

\* _optimize_css(): [self, files].  extraction is what extract_critical_css(url)
\* returned or raised.
optimize_css(self, files, extraction) ==
    IF extraction.raised THEN [self |-> self, files |-> files]
    ELSE [ self |->
               [self EXCEPT
                   !.optimized_resources.css = With(@, "critical", "css/critical.css"),
                   !.applied_optimizations =
                       Append(@, "Extracted critical CSS for above-the-fold content")],
           files |-> With(files, "css/critical.css",
                          [kind |-> "text", text |-> extraction.critical_css]) ]

\* _optimize_js()
optimize_js(self) ==
    [self EXCEPT !.applied_optimizations =
        Append(@, "Added defer attribute to non-critical scripts")]

\* The loop of _optimize_images over self.resources["images"], from the n-th
\* on.  st is [images, files].  Image.open raises on a file that is no image.
RECURSIVE OptimizeImage(_, _)
OptimizeImage(st, n) ==
    IF n > Len(st.images) THEN st
    ELSE LET resource  == st.images[n]
             img_path  == resource.local_path
             img       == st.files[img_path]
             webp_path == "images/" \o Stem(Basename(img_path)) \o ".webp"
             saved     == With(st.files, webp_path,
                               [img EXCEPT !.bytes = img.webp])
             original_size == saved[img_path].bytes
             webp_size     == saved[webp_path].bytes
             sized     == With(With(With(resource, "width", img.size[1]),
                                    "height", img.size[2]),
                               "webp_path", webp_path)
             smaller   == With(With(sized, "optimized_path", webp_path),
                               "savings", original_size - webp_size)
             same      == With(With(sized, "optimized_path", img_path), "savings", 0)
         IN  IF "local_path" \notin DOMAIN resource \/ img.kind # "image"
             THEN OptimizeImage(st, n + 1)
             ELSE OptimizeImage(
                      [ images |-> [st.images EXCEPT ![n] =
                                       IF webp_size < original_size THEN smaller
                                       ELSE same],
                        files |-> saved ],
                      n + 1)

\* _optimize_images(): [self, files]
optimize_images(self, files) ==
    LET st == OptimizeImage([images |-> self.resources.images, files |-> files], 1)
    IN  [ self |->
              [self EXCEPT
                  !.resources.images = st.images,
                  !.applied_optimizations =
                      @ \o << "Compressed and converted images to WebP format",
                              "Added explicit width/height attributes to images",
                              "Added lazy loading for below-the-fold images" >>],
          files |-> st.files ]

\* ------------------------------------------------------------------------
\* SiteOptimizer._optimize_html
\* ------------------------------------------------------------------------

\* The height of the viewport _optimize_html assumes.
viewport_height == 800

\* A copy that is the tree it is a copy of.
CopyTree_SameTree(trees, dom) == [trees |-> trees, ref |-> dom]

\* optimized_dom = BeautifulSoup(str(self.dom), 'html.parser'): a new tree,
\* parsed from the text of the tree self.dom refers to.
CopyTree(trees, dom) ==
    Allocate(trees, Parse(Str(IF dom = 0 THEN None ELSE trees[dom])))

\* A step 1 that puts the new head last in the html element.
FindOrCreateHead_Appended(dom) ==
    LET heads == FindAll(dom, { id \in Ids(dom) : dom.nodes[id].tag = "head" })
        htmls == FindAll(dom, { id \in Ids(dom) : dom.nodes[id].tag = "html" })
        head  == Len(dom.nodes) + 1
        html  == head + 1
    IN  [ dom |-> IF heads # << >> THEN dom
                  ELSE IF htmls # << >>
                  THEN AppendNew(dom, htmls[1], "head", NoAttrs)
                  ELSE [ nodes |-> dom.nodes
                                   \o << [tag |-> "head", attrs |-> NoAttrs,
                                          parent |-> html, kids |-> << >>,
                                          text |-> ""],
                                         [tag |-> "html", attrs |-> NoAttrs,
                                          parent |-> 0, kids |-> << head >>,
                                          text |-> ""] >>,
                         top |-> Append(dom.top, html) ],
          head |-> IF heads # << >> THEN heads[1] ELSE head,
          raised |-> FALSE, css_links |-> << >>, scripts |-> << >>,
          images |-> << >>, lcp_candidate |-> 0, largest_area |-> 0 ]

\* The locals of _optimize_html are held in one record t:
\* [dom, head, raised, css_links, scripts, images, lcp_candidate, largest_area].
\* dom is the tree optimized_dom as it stands, raised tells whether an exception
\* has ended the call, and the candidate 0 is None.
\*
\* Step 1: head is the first head element of the tree or a new one, put first in
\* the html element or in a new html element at the end of the tree.
FindOrCreateHead(dom) ==
    LET heads == FindAll(dom, { id \in Ids(dom) : dom.nodes[id].tag = "head" })
        htmls == FindAll(dom, { id \in Ids(dom) : dom.nodes[id].tag = "html" })
        head  == Len(dom.nodes) + 1
        html  == head + 1
    IN  [ dom |-> IF heads # << >> THEN dom
                  ELSE IF htmls # << >>
                  THEN InsertNew(dom, htmls[1], 0, "head", NoAttrs)
                  ELSE [ nodes |-> dom.nodes
                                   \o << [tag |-> "head", attrs |-> NoAttrs,
                                          parent |-> html, kids |-> << >>,
                                          text |-> ""],
                                         [tag |-> "html", attrs |-> NoAttrs,
                                          parent |-> 0, kids |-> << head >>,
                                          text |-> ""] >>,
                         top |-> Append(dom.top, html) ],
          head |-> IF heads # << >> THEN heads[1] ELSE head,
          raised |-> FALSE, css_links |-> << >>, scripts |-> << >>,
          images |-> << >>, lcp_candidate |-> 0, largest_area |-> 0 ]

\* Step 2: a style element that holds the critical CSS, put first in head.
InlineCriticalCss(self, files, t) ==
    LET css   == self.optimized_resources.css
        style == Len(t.dom.nodes) + 1
    IN  IF "critical" \notin DOMAIN css THEN t
        ELSE [t EXCEPT !.dom = AppendText(InsertNew(@, t.head, 0, "style", NoAttrs),
                                          style, files[css.critical].text)]

\* The loops over self.resources[...] of steps 3 and 5, from the n-th resource
\* on: the attribute attr of the tag becomes the local path of each resource
\* whose element equals the tag as it stands then.
RECURSIVE UseLocalPath(_, _, _, _, _, _)
UseLocalPath(original, resources, n, dom, tag, attr) ==
    IF n > Len(resources) THEN dom
    ELSE UseLocalPath(original, resources, n + 1,
             IF /\ TagEq(original, resources[n].element, dom, tag)
                /\ "local_path" \in DOMAIN resources[n]
             THEN SetAttr(dom, tag, attr, StrVal(resources[n].local_path))
             ELSE dom,
             tag, attr)

\* css_links = optimized_dom.find_all('link', rel='stylesheet')
CssLinks(t) ==
    [t EXCEPT !.css_links =
        FindAll(t.dom, { id \in Ids(t.dom) : IsStylesheetLink(t.dom.nodes[id]) })]

\* Step 3, from the n-th stylesheet link on.
RECURSIVE PreloadLinks(_, _, _, _)
PreloadLinks(original, resources, t, n) ==
    IF n > Len(t.css_links) THEN t
    ELSE PreloadLinks(original, resources,
             [t EXCEPT !.dom =
                 UseLocalPath(original, resources, 1,
                     SetAttr(SetAttr(SetAttr(@, t.css_links[n], "rel",
                                             StrVal("preload")),
                                     t.css_links[n], "as", StrVal("style")),
                             t.css_links[n], "onload",
                             StrVal("this.onload=null;this.rel='stylesheet'")),
                     t.css_links[n], "href")],
             n + 1)

\* A step 4 that puts each noscript element last in the parent of its link.
RECURSIVE NoscriptFallbacks_AtEnd(_, _)
NoscriptFallbacks_AtEnd(t, n) ==
    IF n > Len(t.css_links) THEN t
    ELSE LET link     == t.css_links[n]
             parent   == t.dom.nodes[link].parent
             noscript == Len(t.dom.nodes) + 1
         IN  IF ~HasAttr(t.dom.nodes[link], "href") THEN [t EXCEPT !.raised = TRUE]
             ELSE NoscriptFallbacks_AtEnd(
                      [t EXCEPT !.dom =
                          AppendNew(AppendNew(@, parent, "noscript", NoAttrs),
                                    noscript, "link",
                                    [rel |-> StrVal("stylesheet"),
                                     href |-> @.nodes[link].attrs.href])],
                      n + 1)


\* Step 4, from the n-th stylesheet link on: link['href'] raises KeyError on a
\* link without href.
RECURSIVE NoscriptFallbacks(_, _)
NoscriptFallbacks(t, n) ==
    IF n > Len(t.css_links) THEN t
    ELSE LET link     == t.css_links[n]
             parent   == t.dom.nodes[link].parent
             noscript == Len(t.dom.nodes) + 1
         IN  IF ~HasAttr(t.dom.nodes[link], "href") THEN [t EXCEPT !.raised = TRUE]
             ELSE NoscriptFallbacks(
                      [t EXCEPT !.dom =
                          AppendNew(InsertNew(@, parent,
                                              IndexIn(Kids(@, parent), link),
                                              "noscript", NoAttrs),
                                    noscript, "link",
                                    [rel |-> StrVal("stylesheet"),
                                     href |-> @.nodes[link].attrs.href])],
                      n + 1)

\* scripts = optimized_dom.find_all('script', src=True)
Scripts(t) ==
    [t EXCEPT !.scripts =
        FindAll(t.dom, { id \in Ids(t.dom) : /\ t.dom.nodes[id].tag = "script"
                                              /\ HasAttr(t.dom.nodes[id], "src") })]

\* A step 5 that gives defer to every script, asynchronous or not.
RECURSIVE DeferScripts_All(_, _, _, _)
DeferScripts_All(original, resources, t, n) ==
    IF n > Len(t.scripts) THEN t
    ELSE DeferScripts_All(original, resources,
             [t EXCEPT !.dom =
                 UseLocalPath(original, resources, 1,
                     SetAttr(@, t.scripts[n], "defer", StrVal("")),
                     t.scripts[n], "src")],
             n + 1)


\* Step 5, from the n-th script on.
RECURSIVE DeferScripts(_, _, _, _)
DeferScripts(original, resources, t, n) ==
    IF n > Len(t.scripts) THEN t
    ELSE DeferScripts(original, resources,
             [t EXCEPT !.dom =
                 UseLocalPath(original, resources, 1,
                     IF ~HasAttr(@.nodes[t.scripts[n]], "async")
                     THEN SetAttr(@, t.scripts[n], "defer", StrVal("")) ELSE @,
                     t.scripts[n], "src")],
             n + 1)

\* images = optimized_dom.find_all('img', src=True)
Images(t) ==
    [t EXCEPT !.images =
        FindAll(t.dom, { id \in Ids(t.dom) : /\ t.dom.nodes[id].tag = "img"
                                              /\ HasAttr(t.dom.nodes[id], "src") })]

\* position = len(str(parent.find_previous_siblings())): the length of the repr
\* of the list of the Tag siblings ahead of the image's parent, the nearest
\* first.  The BeautifulSoup object has no siblings.
Position(dom, img) ==
    LET parent   == dom.nodes[img].parent
        siblings == Kids(dom, dom.nodes[parent].parent)
        previous == IF parent = 0 THEN << >>
                    ELSE Reverse(SelectSeq(
                             SubSeq(siblings, 1, IndexIn(siblings, parent) - 1),
                             LAMBDA id : IsTag(dom, id)))
    IN  Len("[" \o JoinWith([ k \in DOMAIN previous |->
                                Decode(dom, << previous[k] >>) ], ", ") \o "]")

\* The picture element of step 6: the image is taken out of its parent and put
\* into a new picture, behind a new source, and the picture is appended to
\* the parent.
WrapInPicture(dom, img, webp_path) ==
    LET parent_node == dom.nodes[img].parent
        picture     == Len(dom.nodes) + 1
        extracted   == WithKids(dom, parent_node,
                                SelectSeq(Kids(dom, parent_node),
                                          LAMBDA id : id # img))
        appended    == AppendNew(AppendNew(extracted, parent_node, "picture", NoAttrs),
                                 picture, "source",
                                 [srcset |-> StrVal(webp_path),
                                  type |-> StrVal("image/webp")])
    IN  [ appended EXCEPT !.nodes[picture].kids = Append(@, img),
                          !.nodes[img].parent = picture ]

\* Step 6's test 'if "width" in resource and "height" in resource'.
IsSized(resource) == "width" \in DOMAIN resource /\ "height" \in DOMAIN resource

\* The body of step 6 for an image and a resource whose element equals it.
ImageResource(t, resource, img, position) ==
    LET area    == resource.width * resource.height
        largest == /\ IsSized(resource)
                   /\ position < viewport_height
                   /\ area > t.largest_area
        local   == SetAttr(t.dom, img, "src", StrVal(resource.local_path))
        sized   == IF IsSized(resource)
                   THEN SetAttr(SetAttr(local, img, "width",
                                        StrVal(IntStr(resource.width))),
                                img, "height", StrVal(IntStr(resource.height)))
                   ELSE local
    IN  [t EXCEPT !.dom = IF "webp_path" \in DOMAIN resource
                          THEN WrapInPicture(sized, img, resource.webp_path)
                          ELSE sized,
                  !.lcp_candidate = IF largest THEN img ELSE @,
                  !.largest_area = IF largest THEN area ELSE @]

\* The loop of step 6 over self.resources["images"] for one image, from the n-th
\* resource on.
RECURSIVE ImageResources(_, _, _, _, _, _)
ImageResources(original, resources, n, t, img, position) ==
    IF n > Len(resources) THEN t
    ELSE ImageResources(original, resources, n + 1,
             IF /\ TagEq(original, resources[n].element, t.dom, img)
                /\ "local_path" \in DOMAIN resources[n]
             THEN ImageResource(t, resources[n], img, position)
             ELSE t,
             img, position)

\* The loop of step 6 over the images, from the n-th on.  An image always has a
\* parent, and a Tag is always true: no image is passed over.
RECURSIVE ImageTags(_, _, _, _)
ImageTags(original, resources, t, n) ==
    IF n > Len(t.images) THEN t
    ELSE ImageTags(original, resources,
                   ImageResources(original, resources, 1, t, t.images[n],
                                  Position(t.dom, t.images[n])),
                   n + 1)

\* fetchpriority and the preload link of the LCP candidate.
PreloadLcp(t) ==
    LET lcp_src == t.dom.nodes[t.lcp_candidate].attrs.src
    IN  IF t.lcp_candidate = 0 THEN t
        ELSE IF ~HasAttr(t.dom.nodes[t.lcp_candidate], "src") \/ lcp_src = StrVal("")
        THEN [t EXCEPT !.dom = SetAttr(@, t.lcp_candidate, "fetchpriority",
                                       StrVal("high"))]
        ELSE [t EXCEPT !.dom =
                 InsertNew(SetAttr(@, t.lcp_candidate, "fetchpriority",
                                   StrVal("high")),
                           t.head, 0, "link",
                           [rel |-> StrVal("preload"), href |-> lcp_src,
                            as |-> StrVal("image")])]

\* loading="lazy" on the images that are not equal to the LCP candidate, from the
\* n-th image on.
RECURSIVE LazyImages(_, _)
LazyImages(t, n) ==
    IF n > Len(t.images) THEN t
    ELSE LazyImages(
             IF /\ t.lcp_candidate # 0
                /\ TagEq(t.dom, t.images[n], t.dom, t.lcp_candidate)
             THEN t
             ELSE [t EXCEPT !.dom = SetAttr(@, t.images[n], "loading",
                                            StrVal("lazy"))],
             n + 1)

\* Step 7: the domains of the URLs of all the resources.
ExternalDomains(resources) ==
    UNION { { Netloc(resources[ResourceTypes[k]][n].url) :
                n \in DOMAIN resources[ResourceTypes[k]] } :
            k \in DOMAIN ResourceTypes } \ { "" }

\* Step 7: the two links of each domain, each put first in head, from the n-th
\* domain on.
RECURSIVE ResourceHints(_, _, _)
ResourceHints(t, domains, n) ==
    IF n > Len(domains) THEN t
    ELSE ResourceHints(
             [t EXCEPT !.dom =
                 InsertNew(InsertNew(@, t.head, 0, "link",
                                     [rel |-> StrVal("preconnect"),
                                      href |-> StrVal("https://" \o domains[n]),
                                      crossorigin |-> StrVal("")]),
                           t.head, 0, "link",
                           [rel |-> StrVal("dns-prefetch"),
                            href |-> StrVal("https://" \o domains[n])])],
             domains, n + 1)

\* Step 8: the meta element, put last in head.
CacheManifest(t) ==
    [t EXCEPT !.dom =
        AppendNew(@, t.head, "meta",
                  WithAttr([content |-> StrVal("max-age=31536000")],
                           "http-equiv", StrVal("Cache-Control")))]

\* Steps 5 to 8, which an exception in step 4 leaves out.  seed orders the set
\* of domains.
TagsAndHints(self, original, seed, t) ==
    IF t.raised THEN t
    ELSE CacheManifest(
             ResourceHints(
                 LazyImages(
                     PreloadLcp(
                         ImageTags(original, self.resources.images,
                             Images(DeferScripts(original, self.resources.js,
                                                 Scripts(t), 1)),
                             1)),
                     1),
                 SetOrder(ExternalDomains(self.resources), seed), 1))

\* Step 9 and the end of _optimize_html:
\* [raised, self, trees, files, optimized_dom, head, images, lcp_candidate].
\* When link['href'] has raised, no file is written and nothing is added to
\* applied_optimizations.
SaveOptimizedHtml(self, files, copy, t) ==
    [ raised |-> t.raised,
      self |-> IF t.raised THEN self
               ELSE [self EXCEPT !.applied_optimizations =
                        @ \o << "Inlined critical CSS in the head",
                                "Deferred loading of non-critical CSS",
                                "Added resource hints (preconnect, dns-prefetch)",
                                "Optimized LCP image loading with fetchpriority",
                                "Added cache control headers" >>],
      trees |-> [copy.trees EXCEPT ![copy.ref] = t.dom],
      files |-> IF t.raised THEN files
                ELSE With(files, "index.html",
                          [kind |-> "text", text |-> Str(t.dom)]),
      optimized_dom |-> copy.ref, head |-> t.head, images |-> t.images,
      lcp_candidate |-> t.lcp_candidate ]

\* Steps 1 to 9 on the copy of the tree.
OptimizeCopy(self, original, files, seed, copy) ==
    SaveOptimizedHtml(self, files, copy,
        TagsAndHints(self, original, seed,
            NoscriptFallbacks(
                PreloadLinks(original, self.resources.css,
                    CssLinks(InlineCriticalCss(self, files,
                                 FindOrCreateHead(copy.trees[copy.ref]))),
                    1),
                1)))

\* _optimize_html() from its copy of the tree on; original is the tree self.dom
\* refers to, in which the elements of the resources stand.
optimize_html(self, trees, files, seed) ==
    OptimizeCopy(self, IF self.dom = 0 THEN EmptyTree ELSE trees[self.dom],
                 files, seed, CopyTree(trees, self.dom))

\* ------------------------------------------------------------------------
\* The optimizer at work: optimize_and_test (specification Spec)
\* ------------------------------------------------------------------------

RECURSIVE Repeat(_, _)
Repeat(s, n) == IF n = 0 THEN "" ELSE s \o Repeat(s, n - 1)

SiteShapes ==
    { StylesheetLink("a.css"),
      StylesheetLink("https://cdn.test/b.css"),
      Shape("link", [rel |-> ListVal(<< "stylesheet" >>)]),
      Shape("link", [rel |-> ListVal(<< "font" >>),
                     href |-> StrVal("http://fonts.test/f.woff")]),
      Shape("script", [src |-> StrVal("app.js")]),
      Shape("script", [src |-> StrVal("https://cdn.test/lib.js"),
                       async |-> StrVal("")]),
      Img("a.png", "10", "10"),
      Img("a.png", "100%", "50"),
      Shape("img", [src |-> StrVal("hero.jpg")]),
      Shape("img", [src |-> StrVal("gone.png")]),
      Shape("img", [srcset |-> StrVal("hero.jpg 2x")]),
      [ Shape("div", [class |-> ListVal(<< "hero" >>)])
          EXCEPT !.kids = << Shape("img", [src |-> StrVal("a.png")]) >> ],
      [ Shape("div", NoAttrs) EXCEPT !.text = Repeat("lorem ipsum ", 70) ] }

SiteLayouts == { "bare", "html", "full" }

\* The requests for the page that fail: none, the first, the second, both.
Outages == { {}, { 1 }, { 2 }, { 1, 2 } }

SiteNetworks ==
    { [dom |-> Page(layout, shapes), down |-> down, requests |-> 0, files |-> << >>] :
        layout \in SiteLayouts, shapes \in ShapeLists(SiteShapes, MaxSiteElems),
        down \in Outages }

\* In this specification loc holds the trees of the process and, once
\* _optimize_html has returned, its locals optimized_dom, head, images and
\* lcp_candidate.
Init ==
    /\ pc = "fetch_original_site"
    /\ world \in SiteNetworks
    /\ site = NewSiteOptimizer(PageUrl)
    /\ loc = [trees |-> << >>]
    /\ ext = None
    /\ arg = None
    /\ ret = None

\* optimizer.fetch_original_site()
FetchOriginalSite ==
    /\ pc = "fetch_original_site"
    /\ LET fetched == fetch_original_site(site, loc.trees, Serve(world))
       IN  /\ site' = fetched.self
           /\ loc' = [trees |-> fetched.trees]
    /\ world' = Requested(world)
    /\ pc' = "extract_resources"
    /\ UNCHANGED << arg, ret, ext >>

\* optimizer.extract_resources(): it fetches the page when self.dom is None,
\* and ends with an AttributeError when the page cannot be fetched then either.
ExtractResources ==
    /\ pc = "extract_resources"
    /\ LET fetched == IF site.dom = 0
                      THEN fetch_original_site(site, loc.trees, Serve(world))
                      ELSE [self |-> site, trees |-> loc.trees, ok |-> TRUE]
       IN  /\ loc' = [trees |-> fetched.trees]
           /\ world' = IF site.dom = 0 THEN Requested(world) ELSE world
           /\ IF fetched.self.dom = 0
              THEN site' = fetched.self /\ pc' = "crashed"
              ELSE /\ site' = extract_resources(fetched.self,
                                                fetched.trees[fetched.self.dom])
                   /\ pc' = "download_resources"
    /\ UNCHANGED << arg, ret, ext >>

\* optimizer.download_resources()
DownloadResources ==
    /\ pc = "download_resources"
    /\ LET done == download_resources(site, world.files)
       IN  /\ site' = [site EXCEPT !.resources = done.resources]
           /\ world' = [world EXCEPT !.files = done.files]
    /\ pc' = "optimize_css"
    /\ UNCHANGED << arg, ret, ext, loc >>

\* self._optimize_css(): extract_critical_css(self.url) builds an extractor of
\* its own, which requests the page again; what it raises is caught.
OptimizeCss ==
    /\ pc = "optimize_css"
    /\ \E seed \in HashSeeds :
          LET extraction == extract_critical_css(NewCriticalCSSExtractor(site.url),
                                                 Serve(world), seed)
              done       == optimize_css(site, world.files, extraction)
          IN  /\ site' = done.self
              /\ world' = [Requested(world) EXCEPT !.files = done.files]
    /\ pc' = "optimize_js"
    /\ UNCHANGED << arg, ret, ext, loc >>

\* self._optimize_js()
OptimizeJs ==
    /\ pc = "optimize_js"
    /\ site' = optimize_js(site)
    /\ pc' = "optimize_images"
    /\ UNCHANGED << arg, ret, world, ext, loc >>

\* self._optimize_images()
OptimizeImages ==
    /\ pc = "optimize_images"
    /\ LET done == optimize_images(site, world.files)
       IN  /\ site' = done.self
           /\ world' = [world EXCEPT !.files = done.files]
    /\ pc' = "optimize_html"
    /\ UNCHANGED << arg, ret, ext, loc >>

\* self._optimize_html(): it fetches the page when self.dom is None (which it
\* never is here, extract_resources having ended the run otherwise).
OptimizeHtml ==
    /\ pc = "optimize_html"
    /\ \E seed \in HashSeeds :
        \E fetched \in { IF site.dom = 0
                          THEN fetch_original_site(site, loc.trees, Serve(world))
                          ELSE [self |-> site, trees |-> loc.trees, ok |-> TRUE] } :
        \E done \in { optimize_html(fetched.self, fetched.trees, world.files, seed) } :
            /\ site' = done.self
            /\ world' = [(IF site.dom = 0 THEN Requested(world) ELSE world)
                            EXCEPT !.files = done.files]
            /\ IF done.raised
               THEN loc' = [trees |-> done.trees] /\ pc' = "crashed"
               ELSE /\ loc' = [ trees |-> done.trees,
                                optimized_dom |-> done.optimized_dom,
                                head |-> done.head,
                                images |-> done.images,
                                lcp_candidate |-> done.lcp_candidate ]
                    /\ pc' = "run_lighthouse_tests"
    /\ UNCHANGED << arg, ret, ext >>

Next ==
    \/ FetchOriginalSite
    \/ ExtractResources
    \/ DownloadResources
    \/ OptimizeCss
    \/ OptimizeJs
    \/ OptimizeImages
    \/ OptimizeHtml

Spec == Init /\ [][Next]_vars

\* ------------------------------------------------------------------------
\* Lighthouse (lighthouse.py)
\* ------------------------------------------------------------------------

\* audit is called at most MaxAudits times in a run; run_lighthouse_tests
\* calls it twice.
MaxAudits == 2

\* Lighthouse(driver=None, use_brave=...)
NewLighthouse(use_brave) == [driver |-> None, use_brave |-> use_brave]

\* The paths _get_browser_path tries for Brave on a system, in its order
\* (PROGRAMFILES and PROGRAMFILES(X86) at their defaults).
BravePaths(system) ==
    CASE system = "Darwin" ->
             << "/Applications/Brave Browser.app/Contents/MacOS/Brave Browser" >>
      [] system = "Linux" -> << "/usr/bin/brave-browser" >>
      [] system = "Windows" ->
             << "C:\\Program Files\\BraveSoftware\\Brave-Browser\\Application\\brave.exe",
                "C:\\Program Files (x86)\\BraveSoftware\\Brave-Browser\\Application\\brave.exe" >>
      [] OTHER -> << >>

\* The paths it tries for Chrome.
ChromePaths(system) ==
    CASE system = "Darwin" ->
             << "/Applications/Google Chrome.app/Contents/MacOS/Google Chrome" >>
      [] system = "Linux" ->
             << "/usr/bin/google-chrome", "/usr/bin/chromium-browser",
                "/usr/bin/chromium" >>
      [] system = "Windows" ->
             << "C:\\Program Files\\Google\\Chrome\\Application\\chrome.exe",
                "C:\\Program Files (x86)\\Google\\Chrome\\Application\\chrome.exe" >>
      [] OTHER -> << >>

\* The first of the paths for which os.path.exists holds, as a sequence of at
\* most one path.
FirstExisting(paths, exists) ==
    FirstN(SelectSeq(paths, LAMBDA path : path \in exists), 1)

\* self._get_browser_path(): the kind and the path of the browser found, None
\* for (None, None).
_get_browser_path(self, system, exists) ==
    LET brave  == IF self.use_brave THEN FirstExisting(BravePaths(system), exists)
                  ELSE << >>
        chrome == FirstExisting(ChromePaths(system), exists)
    IN  IF brave # << >>
        THEN [browser_type |-> "brave", browser_path |-> brave[1]]
        ELSE IF chrome # << >>
        THEN [browser_type |-> "chrome", browser_path |-> chrome[1]]
        ELSE None

\* self._mock_lighthouse_response(); a score is written in hundredths.
_mock_lighthouse_response ==
    [ categories |-> [performance |-> [score |-> 65]],
      audits |->
          ( "first-contentful-paint" :> [displayValue |-> "1.5 s", score |-> 80]
         @@ "largest-contentful-paint" :> [displayValue |-> "2.5 s", score |-> 70]
         @@ "total-blocking-time" :> [displayValue |-> "150 ms", score |-> 60]
         @@ "cumulative-layout-shift" :> [displayValue |-> "0.1", score |-> 90]
         @@ "render-blocking-resources" :>
                [score |-> 40,
                 title |-> "Eliminate render-blocking resources",
                 description |-> "Resources are blocking the first paint of your page.",
                 details |-> << >>]
         @@ "uses-optimized-images" :>
                [score |-> 50,
                 title |-> "Efficiently encode images",
                 description |-> "Optimized images load faster and consume less data.",
                 details |-> << >>] ) ]

\* A report of the lighthouse command, and what it may leave in the output
\* file: nothing, a text cut short, a document that is no report, a report.
Report == "{\"categories\": {\"performance\": {\"score\": 0.9}}}"

Outputs == { "", "{\"categories\": {", "[]", Report }

\* json.load(f) for the texts of Outputs: the value, or JSONDecodeError raised.
JsonLoad(text) ==
    CASE text = Report ->
             [raised |-> FALSE,
              value |-> [categories |-> [performance |-> [score |-> 90]]]]
      [] text = "[]" -> [raised |-> FALSE, value |-> << >>]
      [] OTHER -> [raised |-> TRUE, value |-> None]

\* What subprocess.run(cmd, ...) may do: raise (no lighthouse command on the
\* PATH, or one that may not be executed), or run the command, which exits with
\* a return code and has removed the output file or left a text in it.
Commands ==
    { [raises |-> TRUE, exception |-> e, returncode |-> 0, removes |-> FALSE,
       writes |-> ""] : e \in { "FileNotFoundError", "PermissionError" } }
    \cup [ raises : { FALSE }, exception : { "" }, returncode : { 0, 1 },
           removes : BOOLEAN, writes : Outputs ]

\* The classes of the exceptions above that 'except Exception' catches.
ExceptionClasses == { "FileNotFoundError", "PermissionError" }

\* tempfile.NamedTemporaryFile(suffix='.json', delete=False): the name of the
\* n-th file made.
TempName(n) == "/tmp/tmp" \o IntStr(n) \o ".json"

\* The URLs run_lighthouse_tests audits: the site, then the page written.
AuditUrl(n) == IF n = 1 THEN PageUrl ELSE "file:///optimized/index.html"

\* The files once the command has run.
Ran(files, output_path, command) ==
    IF command.removes
    THEN [ path \in DOMAIN files \ { output_path } |-> files[path] ]
    ELSE [ files EXCEPT ![output_path] = command.writes ]

\* The try block of audit: what it returns or raises, and the files it leaves.
TryAudit(self, system, exists, files, output_path, command) ==
    LET browser == _get_browser_path(self, system, exists)
        mock    == [raised |-> FALSE, exception |-> "",
                    value |-> _mock_lighthouse_response]
        ran     == Ran(files, output_path, command)
    IN  IF browser # None /\ browser.browser_path \in exists
        THEN IF command.raises
             THEN [raised |-> TRUE, exception |-> command.exception,
                   value |-> None, files |-> files]
             ELSE IF command.returncode # 0
             THEN mock @@ [files |-> ran]
             ELSE IF output_path \in DOMAIN ran /\ Len(ran[output_path]) > 0
             THEN (IF JsonLoad(ran[output_path]).raised THEN mock
                   ELSE [raised |-> FALSE, exception |-> "",
                         value |-> JsonLoad(ran[output_path]).value])
                  @@ [files |-> ran]
             ELSE mock @@ [files |-> ran]
        ELSE mock @@ [files |-> files]

\* A finally block that leaves the output file where it is.
Cleanup_Kept(files, output_path) == files

\* The finally block of audit.
Cleanup(files, output_path) ==
    IF output_path \in DOMAIN files
    THEN [ path \in DOMAIN files \ { output_path } |-> files[path] ]
    ELSE files

\* self.audit(url) in an environment net, with what subprocess.run does given
\* by command: the temporary file is made, the try block runs, 'except
\* Exception' turns what it raises into the mock response, and the finally
\* block runs.
audit(self, net, url, command) ==
    LET output_path == TempName(net.made + 1)
        tried       == TryAudit(self, net.system, net.exists,
                                net.files @@ (output_path :> ""),
                                output_path, command)
        caught      == tried.raised /\ tried.exception \in ExceptionClasses
    IN  [ raised |-> tried.raised /\ ~caught,
          value  |-> IF caught THEN _mock_lighthouse_response ELSE tried.value,
          output_path |-> output_path,
          world  |-> [net EXCEPT !.made = @ + 1,
                                 !.files = Cleanup(tried.files, output_path)] ]

\* The systems platform.system() names, and the browsers that may be installed.
Systems == { "Darwin", "Linux", "Windows", "Java" }

Browsers ==
    { "/usr/bin/brave-browser", "/usr/bin/chromium",
      "/Applications/Google Chrome.app/Contents/MacOS/Google Chrome" }

\* In this specification world is the machine audit runs on (its system, the
\* browsers installed, the temporary files and how many have been made), site
\* the Lighthouse object, arg the URL and what the lighthouse command did in
\* the last call, ret what the call returned, and loc its local output_path.
InitAudit ==
    /\ pc = "start"
    /\ world \in [ system : Systems, exists : SUBSET Browsers,
                   files : { << >> }, made : { 0 } ]
    /\ site \in { NewLighthouse(use_brave) : use_brave \in BOOLEAN }
    /\ arg = None
    /\ ret = None
    /\ loc = None
    /\ ext = None

\* lighthouse.audit(url)
Audit ==
    /\ pc \in { "start", "returned" }
    /\ world.made < MaxAudits
    /\ \E command \in Commands :
          LET url  == AuditUrl(world.made + 1)
              done == audit(site, world, url, command)
          IN  /\ ret' = [raised |-> done.raised, value |-> done.value]
              /\ world' = done.world
              /\ arg' = [url |-> url, command |-> command]
              /\ loc' = [output_path |-> done.output_path]
    /\ pc' = "returned"
    /\ UNCHANGED << ext, site >>

NextAudit == Audit

SpecAudit == InitAudit /\ [][NextAudit]_vars

\* ------------------------------------------------------------------------
\* Claims about the stylesheet functions
\* ------------------------------------------------------------------------

\* Whether a rule found in a stylesheet has a trimmed selector text that starts
\* with '@'.
IsAtRule(rule) == StartsWith(Strip(rule.selector), "@")

\* The comma-separated, trimmed selectors of the rules from i on that do not
\* start with '@'.
RECURSIVE SelectorsOfPlainRules(_, _)
SelectorsOfPlainRules(rules, i) ==
    IF i > Len(rules) THEN << >>
    ELSE IF IsAtRule(rules[i]) THEN SelectorsOfPlainRules(rules, i + 1)
    ELSE StripAll(Split(Strip(rules[i].selector), ","))
         \o SelectorsOfPlainRules(rules, i + 1)

\* C1: a rule whose trimmed selector text starts with '@' contributes no
\* selector to the result of parse_css (the result is made of the selectors of
\* the other rules, and of nothing else), and generate_critical_css emits no
\* such rule: no block of its output has a selector text that starts with '@',
\* whatever the critical set holds.
C1_AtRulesExcluded ==
    /\ pc \in { "css_parsed", "css_generated" } =>
          \A n \in DOMAIN arg.css_contents :
              ret.selectors[n] =
                  SelectorsOfPlainRules(FindRules(arg.css_contents[n].content), 1)
    /\ pc = "css_generated" =>
          LET emitted == FindRules(ret.critical_css)
          IN  \A i \in DOMAIN emitted : ~IsAtRule(emitted[i])

\* A stylesheet with an '@' rule whose selector text is in the critical set,
\* and an output with a rule emitted.
C1_Witness ==
    /\ pc = "css_generated"
    /\ \E n \in DOMAIN arg.css_contents :
          LET rules == FindRules(arg.css_contents[n].content)
          IN  \E i \in DOMAIN rules :
                  /\ IsAtRule(rules[i])
                  /\ Strip(rules[i].selector) \in ret.critical_selectors
    /\ Len(ret.critical_css) > Len(Header \o Preamble)

\* The reset rules as the source writes them.
C4_ResetRules ==
    "html, body {\n    margin: 0;\n    padding: 0;\n    box-sizing: border-box;\n}\n"
    \o "\n*, *::before, *::after {\n    box-sizing: inherit;\n}\n"

\* C4: for every critical set and every set of stylesheets the text returned by
\* generate_critical_css holds the two reset rules verbatim, right after the
\* header comment and so ahead of every rule it emits.
C4_PreambleAlways ==
    pc = "css_generated" =>
        StartsWith(ret.critical_css,
                   "/* Critical CSS extracted by PageSpeed AI */\n\n" \o C4_ResetRules)

\* The empty critical set, over a stylesheet that has rules.
C4_Witness ==
    /\ pc = "css_generated"
    /\ ret.critical_selectors = {}
    /\ \E n \in DOMAIN arg.css_contents : FindRules(arg.css_contents[n].content) # << >>

\* C3: match_selectors is monotone in the signature set: with more signatures
\* the matched set can only grow.
C3_MatchMonotone ==
    pc = "match_done" => ret.matching \subseteq ret.more_matching

\* Signatures were added and the matched set grew from a non-empty one.
C3_Witness ==
    /\ pc = "match_done"
    /\ arg.signatures # arg.more_signatures
    /\ ret.matching # {}
    /\ ret.matching # ret.more_matching

\* The selectors of a list with a base form that holds one of the signatures as
\* a substring.
C6_Expected(signatures, css_selectors) ==
    { sel \in Range(css_selectors) :
        \E sig \in signatures : Contains(StripPseudo(sel), sig) }

\* The signatures of a page whose only above-fold element is
\* <header class="site-head">.
C6_HeaderSignatures == { "header", ".site-head", "header.site-head" }

\* C6: a selector is in the result of match_selectors exactly when some signature
\* is a substring of its base form, and the result holds the selectors as they
\* were given, pseudo suffixes included.  The base forms of the pool are the
\* selectors without their ':' and '::' suffixes and arguments.  For the
\* signatures of <header class="site-head">, 'header' is matched and '.foo' is
\* not.
C6_MatchIffSubstringOfBase ==
    /\ StripPseudo("header:hover") = "header"
    /\ StripPseudo("nav .hero::after") = "nav .hero"
    /\ StripPseudo("a:not(.site-head)") = "a"
    /\ pc = "match_done" =>
          /\ ret.matching = C6_Expected(arg.signatures, arg.css_selectors)
          /\ ret.more_matching = C6_Expected(arg.more_signatures, arg.css_selectors)
          /\ arg.signatures = C6_HeaderSignatures =>
                /\ "header" \in Range(arg.css_selectors) => "header" \in ret.matching
                /\ ".foo" \notin ret.matching

\* The header's signatures against 'header' and '.foo': one matched, one not; or
\* a selector matched through its base form only.
C6_Witness ==
    /\ pc = "match_done"
    /\ arg.signatures = C6_HeaderSignatures
    /\ arg.css_selectors = << "header", ".foo" >>
    /\ ret.matching = { "header" }

\* ------------------------------------------------------------------------
\* Claims about the document functions
\* ------------------------------------------------------------------------

\* C7: no element occurs twice in the result of find_above_fold_elements.
C7_NoDuplicates ==
    pc \in { "fold_found", "fold_done" } =>
        \A i, j \in DOMAIN ret.above_fold_elements :
            ret.above_fold_elements[i] = ret.above_fold_elements[j] => i = j

\* The images of a document that declare a width and a height, in document
\* order.
C8_SizedImages(dom) ==
    SelectSeq(Elements(dom),
              LAMBDA id : /\ dom.nodes[id].tag = "img"
                          /\ { "width", "height" } \subseteq DOMAIN dom.nodes[id].attrs)

C8_Area(dom, id) ==
    ParseInt(dom.nodes[id].attrs.width.str).value
        * ParseInt(dom.nodes[id].attrs.height.str).value

\* C8: when find_above_fold_elements returns and some image declares both a
\* width and a height, the last element of the result is one of these images,
\* none of them has a larger width x height, and none of those ahead of it in
\* the document has the same; when no image declares both, the result holds no
\* image that has no class.
C8_DominantImage ==
    pc \in { "fold_found", "fold_done" } =>
        LET sized  == C8_SizedImages(arg.dom)
            result == ret.above_fold_elements
        IN  IF sized = << >>
            THEN \A i \in DOMAIN result :
                    arg.dom.nodes[result[i]].tag = "img"
                        => "class" \in DOMAIN arg.dom.nodes[result[i]].attrs
            ELSE /\ result # << >>
                 /\ \E k \in DOMAIN sized :
                       /\ result[Len(result)] = sized[k]
                       /\ \A m \in DOMAIN sized :
                             /\ C8_Area(arg.dom, sized[m]) <= C8_Area(arg.dom, sized[k])
                             /\ m < k => C8_Area(arg.dom, sized[m])
                                            < C8_Area(arg.dom, sized[k])

\* An image of 100x100, one of 50x200 and one of 500x50 among images without a
\* size: the 500x50 one, which comes last, is selected.
C8_Witness ==
    /\ pc = "fold_found"
    /\ LET sized == C8_SizedImages(arg.dom)
       IN  /\ Len(sized) = 3
           /\ arg.dom.nodes[sized[1]].attrs.width.str = "100"
           /\ arg.dom.nodes[sized[2]].attrs.width.str = "50"
           /\ arg.dom.nodes[sized[3]].attrs.width.str = "500"
           /\ ret.above_fold_elements[Len(ret.above_fold_elements)] = sized[3]
    /\ \E id \in DOMAIN arg.dom.nodes :
          /\ arg.dom.nodes[id].tag = "img"
          /\ "height" \notin DOMAIN arg.dom.nodes[id].attrs

\* ------------------------------------------------------------------------
\* Claims about extract_critical_css
\* ------------------------------------------------------------------------

\* C2: all the calls of extract_critical_css of a run, which are made on the
\* same page and the same stylesheets, end alike and return the same text: on a
\* fresh extractor and on an extractor used before, and whatever the order in
\* which the set of element selectors is iterated over.
C2_SameInputsSameCss ==
    \A i, j \in DOMAIN loc :
        /\ loc[i].raised = loc[j].raised
        /\ loc[i].critical_css = loc[j].critical_css

\* A call on a fresh extractor and a call on a used one, with rules emitted.
C2_Witness ==
    /\ \E i, j \in DOMAIN loc : loc[i].fresh /\ ~loc[j].fresh
    /\ Len(loc[1].critical_css) > Len(Header \o Preamble)
    /\ Len(ext.css_contents) >= 2

\* C5: every call of extract_critical_css returns a stylesheet that holds at
\* least the fixed preamble, also when the page cannot be fetched.
C5_NeverEmpty ==
    \A i \in DOMAIN loc :
        /\ ~loc[i].raised
        /\ StartsWith(loc[i].critical_css, Header \o Preamble)

\* ------------------------------------------------------------------------
\* Claims about the page transform
\* ------------------------------------------------------------------------

\* The img elements with a src of a tree, in document order: the images of
\* _optimize_html, taken in the tree it copies.
ImagesWithSrc(dom) ==
    FindAll(dom, { id \in Ids(dom) : /\ dom.nodes[id].tag = "img"
                                     /\ HasAttr(dom.nodes[id], "src") })

\* C9: an image that has neither a width nor a height attribute in the input
\* document is never the LCP candidate: no such image is among the elements
\* find_above_fold_elements returns for the document, and the image
\* _optimize_html takes as its lcp_candidate has, in the document self.dom, a
\* width or a height, whatever the size of the downloaded file.
C9_UnsizedNeverLcp ==
    /\ (pc # "fetch_original_site" /\ site.dom # 0) =>
          LET original == loc.trees[site.dom]
              found    == find_above_fold_elements(original).above_fold_elements
          IN  \A n \in DOMAIN found :
                  original.nodes[found[n]].tag = "img" =>
                      \/ HasAttr(original.nodes[found[n]], "width")
                      \/ HasAttr(original.nodes[found[n]], "height")
    /\ (pc = "run_lighthouse_tests" /\ loc.lcp_candidate # 0) =>
          LET original == loc.trees[site.dom]
              img      == ImagesWithSrc(original)[IndexIn(loc.images,
                                                          loc.lcp_candidate)]
          IN  \/ HasAttr(original.nodes[img], "width")
              \/ HasAttr(original.nodes[img], "height")

\* C10: _optimize_html leaves the tree self.dom as it was: self.dom refers to
\* the same tree after the call as before, and that tree has the same elements,
\* with the same attributes, in the same order, also when the call ends with an
\* exception.
C10_OriginalTreeUnchanged ==
    [][(pc = "optimize_html" /\ site.dom # 0) =>
           /\ site'.dom = site.dom
           /\ loc'.trees[site.dom] = loc.trees[site.dom]]_vars

\* _optimize_html has returned, having put elements into its copy, changed
\* attributes there and moved an image into a picture element, none of which
\* the tree self.dom holds.
C10_Witness ==
    /\ pc = "run_lighthouse_tests"
    /\ loc.optimized_dom # site.dom
    /\ LET original      == loc.trees[site.dom]
           optimized_dom == loc.trees[loc.optimized_dom]
       IN  /\ Len(optimized_dom.nodes) > Len(original.nodes)
           /\ \E id \in Ids(optimized_dom) :
                  /\ optimized_dom.nodes[id].tag = "picture"
                  /\ \E k \in DOMAIN optimized_dom.nodes[id].kids :
                         optimized_dom.nodes[id].kids[k] \in Ids(original)
           /\ \E id \in Ids(original) :
                  /\ IsStylesheetLink(original.nodes[id])
                  /\ optimized_dom.nodes[id].attrs # original.nodes[id].attrs
           /\ \A id \in Ids(original) :
                  original.nodes[id].tag \notin { "picture", "noscript", "meta" }

\* The elements of a tree with the given name, in document order.
Named(dom, tag) == FindAll(dom, { id \in Ids(dom) : dom.nodes[id].tag = tag })

\* Whether a tree has one head element, which is the first child of an html
\* element.
C11_HeadFirstInHtml(dom) ==
    LET heads == Named(dom, "head")
        html  == dom.nodes[heads[1]].parent
    IN  /\ Len(heads) = 1
        /\ html # 0
        /\ dom.nodes[html].tag = "html"
        /\ dom.nodes[html].kids[1] = heads[1]

\* C11: when _optimize_html has run on a document without a head element, the
\* tree it has built, and the document it has written to index.html, have
\* exactly one head element, which is the first child of an html element:
\* of the html element of the input, or of the one the call has made when the
\* input has none.
C11_OneHeadFirstInHtml ==
    (pc = "run_lighthouse_tests" /\ Named(loc.trees[site.dom], "head") = << >>) =>
        /\ C11_HeadFirstInHtml(loc.trees[loc.optimized_dom])
        /\ C11_HeadFirstInHtml(Parse(world.files["index.html"].text))
        /\ Len(Named(loc.trees[loc.optimized_dom], "html")) = 1
        /\ Named(loc.trees[site.dom], "html") # << >> =>
              Named(loc.trees[loc.optimized_dom], "html")
                  = Named(loc.trees[site.dom], "html")

\* A document of two images and no html element: the html element is made, and
\* its head, which holds the hints and the meta element, is its only child.
C11_Witness ==
    /\ pc = "run_lighthouse_tests"
    /\ Named(loc.trees[site.dom], "head") = << >>
    /\ Named(loc.trees[site.dom], "html") = << >>
    /\ Len(Named(loc.trees[site.dom], "img")) = 2
    /\ LET optimized_dom == loc.trees[loc.optimized_dom]
       IN  /\ Len(optimized_dom.nodes[loc.head].kids) > 1
           /\ optimized_dom.nodes[optimized_dom.nodes[loc.head].parent].kids
                  = << loc.head >>

\* The stylesheet links of a tree, in document order.
StylesheetLinks(dom) ==
    FindAll(dom, { id \in Ids(dom) : IsStylesheetLink(dom.nodes[id]) })

\* The links of a tree with rel=preload and as=style, in document order.
C12_StylePreloads(dom) ==
    FindAll(dom, { id \in Ids(dom) :
                     /\ dom.nodes[id].tag = "link"
                     /\ Tokens(dom.nodes[id], "rel") = << "preload" >>
                     /\ HasAttr(dom.nodes[id], "as")
                     /\ dom.nodes[id].attrs.as = StrVal("style") })

\* C12: in the document _optimize_html has built, the stylesheet links of the
\* input are, one for one and in the same order, links with rel=preload,
\* as=style and the onload handler that sets rel back to 'stylesheet'; the next
\* sibling of each is a noscript element that holds a link with rel=stylesheet
\* and the href the link has in the input; and no link with rel=stylesheet
\* stands outside a noscript element.
C12_PreloadWithFallback ==
    pc = "run_lighthouse_tests" =>
        LET original      == loc.trees[site.dom]
            optimized_dom == loc.trees[loc.optimized_dom]
            links         == StylesheetLinks(original)
            preloads      == C12_StylePreloads(optimized_dom)
        IN  /\ Len(preloads) = Len(links)
            /\ \A id \in Ids(optimized_dom) :
                   IsStylesheetLink(optimized_dom.nodes[id]) =>
                       /\ optimized_dom.nodes[id].parent # 0
                       /\ optimized_dom.nodes[optimized_dom.nodes[id].parent].tag
                              = "noscript"
            /\ \A n \in DOMAIN preloads :
                   LET link     == optimized_dom.nodes[preloads[n]]
                       siblings == Kids(optimized_dom, link.parent)
                       k        == IndexIn(siblings, preloads[n])
                       noscript == optimized_dom.nodes[siblings[k + 1]]
                   IN  /\ HasAttr(link, "onload")
                       /\ link.attrs.onload
                              = StrVal("this.onload=null;this.rel='stylesheet'")
                       /\ k < Len(siblings)
                       /\ noscript.tag = "noscript"
                       /\ \E j \in DOMAIN noscript.kids :
                              LET fallback == optimized_dom.nodes[noscript.kids[j]]
                              IN  /\ fallback.tag = "link"
                                  /\ Tokens(fallback, "rel") = << "stylesheet" >>
                                  /\ HasAttr(fallback, "href")
                                  /\ fallback.attrs.href
                                         = original.nodes[links[n]].attrs.href

\* A page with two stylesheet links in its head, one after the other, both
\* downloaded to local files, has been transformed.
C12_Witness ==
    /\ pc = "run_lighthouse_tests"
    /\ LET original == loc.trees[site.dom]
           links    == StylesheetLinks(original)
       IN  /\ Len(links) = 2
           /\ original.nodes[links[1]].parent = original.nodes[links[2]].parent
           /\ original.nodes[links[1]].attrs.href
                  # original.nodes[links[2]].attrs.href
    /\ Len(site.resources.css) = 2
    /\ \A n \in DOMAIN site.resources.css :
           "local_path" \in DOMAIN site.resources.css[n]
    /\ Len(C12_StylePreloads(loc.trees[loc.optimized_dom])) = 2

\* The rules of all the stylesheets, those of the first stylesheet first.
RECURSIVE C13_AllRules(_, _)
C13_AllRules(css_contents, n) ==
    IF n > Len(css_contents) THEN << >>
    ELSE FindRules(css_contents[n].content) \o C13_AllRules(css_contents, n + 1)

\* Whether a rule is to be emitted: its trimmed selector text does not start
\* with '@', and one of its comma-separated, trimmed selectors is critical.
C13_IsEmitted(rule, critical_selectors) ==
    /\ ~IsAtRule(rule)
    /\ \E s \in Range(Split(Strip(rule.selector), ",")) :
           Strip(s) \in critical_selectors

\* The block of an emitted rule: the whole trimmed selector text, and the
\* trimmed fragments between the ';' of its declarations that are not empty,
\* in their order, each on a line and followed by ';'.
C13_Block(rule) ==
    LET fragments == SelectSeq(StripAll(Split(rule.rules, ";")),
                               LAMBDA r : r # "")
    IN  Strip(rule.selector) \o " {\n"
        \o JoinWith([ k \in DOMAIN fragments |-> "    " \o fragments[k] \o ";\n" ], "")
        \o "}\n\n"

\* C13: the text generate_critical_css returns is the header and the reset rules
\* followed by the blocks of the rules that are to be emitted, and by nothing
\* else: a rule is emitted exactly when its trimmed selector text does not start
\* with '@' and one member of its selector list is in the critical set, and its
\* block holds the full selector text and every non-empty declaration.
C13_EmittedIffCritical ==
    pc = "css_generated" =>
        LET rules   == C13_AllRules(arg.css_contents, 1)
            emitted == SelectSeq(rules,
                           LAMBDA rule : C13_IsEmitted(rule, ret.critical_selectors))
        IN  ret.critical_css
                = Header \o Preamble
                  \o JoinWith([ k \in DOMAIN emitted |-> C13_Block(emitted[k]) ], "")

\* A rule with two selectors of which only the second is critical is emitted
\* with both, and with its two declarations, the empty fragment between them
\* left out; another rule of the stylesheet is not emitted.
C13_Witness ==
    /\ pc = "css_generated"
    /\ ret.critical_selectors = { "@b" }
    /\ \E n \in DOMAIN arg.css_contents :
           arg.css_contents[n].content = "header{color:red}a, @b {c:d; ;e}"
    /\ ret.critical_css = Header \o Preamble \o "a, @b {\n    c:d;\n    e;\n}\n\n"

\* The stylesheets of a document in the order in which they occur in it: the
\* text of each stylesheet link that has an href and of each style element.
C14_SheetsInDocumentOrder(dom) ==
    LET sheets == FindAll(dom, { id \in Ids(dom) :
                                   \/ /\ IsStylesheetLink(dom.nodes[id])
                                      /\ HasAttr(dom.nodes[id], "href")
                                   \/ dom.nodes[id].tag = "style" })
    IN  [ k \in DOMAIN sheets |->
            IF dom.nodes[sheets[k]].tag = "style" THEN TagString(dom, sheets[k])
            ELSE SheetAt(UrlJoin(PageUrl, AttrStr(dom.nodes[sheets[k]], "href"))).text ]

\* The places << stylesheet, rule >> at which a document's stylesheets hold a
\* rule with the given trimmed selector text.
C14_Places(texts, selector) ==
    UNION { { << k, r >> : r \in { m \in DOMAIN FindRules(texts[k]) :
                                     Strip(FindRules(texts[k])[m].selector) = selector } } :
            k \in DOMAIN texts }

\* C14: the blocks of the text extract_critical_css returns follow the order of
\* the document: of two blocks, the earlier one is a rule of a stylesheet that
\* occurs no later in the document than a stylesheet of the later one, link
\* elements and style elements alike, and within one stylesheet it is a rule
\* that comes no later.
C14_DocumentOrder ==
    \A i \in DOMAIN loc :
        (world.page_ok /\ ~loc[i].raised) =>
            LET texts  == C14_SheetsInDocumentOrder(world.dom)
                blocks == FindRules(loc[i].critical_css)
            IN  \A p \in DOMAIN blocks, q \in DOMAIN blocks :
                    LET first  == C14_Places(texts, Strip(blocks[p].selector))
                        second == C14_Places(texts, Strip(blocks[q].selector))
                    IN  (p < q /\ first # {} /\ second # {}) =>
                            \E a \in first, b \in second :
                                \/ a[1] < b[1]
                                \/ a[1] = b[1] /\ a[2] <= b[2]

\* Whether some class token of a node holds, in lower case, one of the words.
C15_ClassTokenHolds(node, words) ==
    /\ "class" \in DOMAIN node.attrs
    /\ \E c \in Range(Tokens(node, "class")), w \in words : Contains(Lower(c), w)

\* C15: the list find_above_fold_elements returns is made of four parts in this
\* order: the header and nav elements in document order; the elements with a
\* class token that holds 'hero' or 'banner' in any case, in document order; the
\* first three, or fewer, of the section and div elements with a class token
\* that holds 'section'; and one img element that declares a width and a
\* height when the document has one, nothing otherwise.
C15_FixedOrder ==
    pc \in { "fold_found", "fold_done" } =>
        LET dom      == arg.dom
            result   == ret.above_fold_elements
            headers  == SelectSeq(Elements(dom),
                            LAMBDA id : dom.nodes[id].tag \in { "header", "nav" })
            heroes   == SelectSeq(Elements(dom),
                            LAMBDA id : C15_ClassTokenHolds(dom.nodes[id],
                                                            { "hero", "banner" }))
            sections == SelectSeq(Elements(dom),
                            LAMBDA id : /\ dom.nodes[id].tag \in { "section", "div" }
                                        /\ C15_ClassTokenHolds(dom.nodes[id],
                                                               { "section" }))
            three    == [ k \in 1..(IF Len(sections) > 3 THEN 3 ELSE Len(sections))
                            |-> sections[k] ]
            landmarks == headers \o heroes \o three
            image    == SubSeq(result, Len(landmarks) + 1, Len(result))
        IN  /\ Len(result) >= Len(landmarks)
            /\ SubSeq(result, 1, Len(landmarks)) = landmarks
            /\ IF C8_SizedImages(dom) = << >> THEN image = << >>
               ELSE Len(image) = 1 /\ image[1] \in Range(C8_SizedImages(dom))

\* A document of three section elements with the class 'section' followed by
\* <div class="banner section-a">: the div is taken for its class 'banner',
\* then the three section elements; the div, the fourth element with a class
\* that holds 'section', is not taken again, and no image is.
C15_Witness ==
    /\ pc = "fold_found"
    /\ LET dom == arg.dom
       IN  /\ Len(Named(dom, "section")) = 3
           /\ Len(dom.top) = 4
           /\ dom.nodes[dom.top[4]].tag = "div"
           /\ ClassHas(dom.nodes[dom.top[4]], { "section" })
           /\ ret.above_fold_elements
                  = << dom.top[4], dom.top[1], dom.top[2], dom.top[3] >>

\* C16: find_above_fold_elements returns a list for every document, also when
\* an img declares a width or a height that int() does not accept, and the
\* image it takes as the dominant one is then an image whose width and height
\* are both integers.
C16_MalformedSizeTolerated ==
    /\ pc # "fold_raised"
    /\ (pc \in { "fold_found", "fold_done" } /\ C8_SizedImages(arg.dom) # << >>) =>
          SizeKey(arg.dom.nodes[ret.above_fold_elements[
                                    Len(ret.above_fold_elements)]]).ok

\* The signatures of one element: its tag; '.c' and 'tag.c' for each class
\* token c; '#id' for its id; and, under a parent that is an element,
\* 'parent tag' and 'parent .c'.
C17_Signatures(dom, id) ==
    LET tag     == dom.nodes[id].tag
        attrs   == dom.nodes[id].attrs
        classes == IF "class" \in DOMAIN attrs THEN Range(attrs.class.list) ELSE {}
        up      == dom.nodes[id].parent
    IN  { s \in { tag, "#" \o (IF "id" \in DOMAIN attrs THEN attrs.id.str ELSE "") } :
            s = tag \/ "id" \in DOMAIN attrs }
        \cup UNION { { "." \o c, tag \o "." \o c } : c \in classes }
        \cup UNION { { dom.nodes[p].tag \o " " \o tag }
                     \cup { dom.nodes[p].tag \o " ." \o c : c \in classes } :
                     p \in { up } \ { 0 } }

\* C17: extract_element_selectors returns the union of the signatures of the
\* elements it is given, and nothing else.  When every element given is a child
\* of the BeautifulSoup object, no signature names an ancestor (none holds a
\* space); an element without class and id under another element gives its tag
\* and 'parent tag'.
C17_ExactSignatures ==
    pc = "fold_done" =>
        LET dom      == arg.dom
            elements == ret.above_fold_elements
        IN  /\ ret.element_selectors
                   = UNION { C17_Signatures(dom, elements[i]) : i \in DOMAIN elements }
            /\ (\A i \in DOMAIN elements : dom.nodes[elements[i]].parent = 0) =>
                   \A s \in ret.element_selectors :
                       ~Contains(s, " ") /\ ~Contains(s, "[document]")
            /\ \A i \in DOMAIN elements :
                   LET element == dom.nodes[elements[i]]
                   IN  (/\ element.parent # 0
                        /\ DOMAIN element.attrs \cap { "class", "id" } = {}) =>
                           { element.tag,
                             dom.nodes[element.parent].tag \o " " \o element.tag }
                               \subseteq ret.element_selectors

\* <html><body><div class="banner section-a" id="top"> and a sized image: the
\* signatures are those of the div and of the image, with 'body' as the parent.
C17_Witness ==
    /\ pc = "fold_done"
    /\ Len(Named(arg.dom, "html")) = 1
    /\ ret.element_selectors
           = { "div", ".banner", "div.banner", ".section-a", "div.section-a", "#top",
               "body div", "body .banner", "body .section-a", "img", "body img" }

\* C18: when the critical CSS was extracted and _optimize_html has built its
\* document, the first child of head is the style element that holds the
\* critical CSS, whatever hints the later steps have put into head.
C18_StyleFirstInHead ==
    (pc = "run_lighthouse_tests" /\ "critical" \in DOMAIN site.optimized_resources.css) =>
        LET optimized_dom == loc.trees[loc.optimized_dom]
            first         == optimized_dom.nodes[loc.head].kids[1]
        IN  /\ optimized_dom.nodes[first].tag = "style"
            /\ TagString(optimized_dom, first)
                   = world.files[site.optimized_resources.css.critical].text

\* C19: the script elements of the document _optimize_html has built are those
\* of the input, in the same order (each has the src of its counterpart, or
\* the local path of the resource made of the counterpart); a script with a src
\* and without async in the input has defer, and a script with async has defer
\* only if it had it in the input.
C19_DeferKeepsOrder ==
    pc = "run_lighthouse_tests" =>
        LET original      == loc.trees[site.dom]
            optimized_dom == loc.trees[loc.optimized_dom]
            before        == Named(original, "script")
            after         == Named(optimized_dom, "script")
        IN  /\ Len(after) = Len(before)
            /\ \A n \in DOMAIN before :
                   LET was    == original.nodes[before[n]]
                       script == optimized_dom.nodes[after[n]]
                   IN  /\ HasAttr(script, "src") = HasAttr(was, "src")
                       /\ HasAttr(was, "src") =>
                              \/ script.attrs.src = was.attrs.src
                              \/ \E k \in DOMAIN site.resources.js :
                                     /\ site.resources.js[k].element = before[n]
                                     /\ "local_path" \in DOMAIN site.resources.js[k]
                                     /\ script.attrs.src
                                            = StrVal(site.resources.js[k].local_path)
                       /\ HasAttr(script, "async") = HasAttr(was, "async")
                       /\ (HasAttr(was, "src") /\ ~HasAttr(was, "async")) =>
                              HasAttr(script, "defer")
                       /\ HasAttr(was, "async") =>
                              HasAttr(script, "defer") = HasAttr(was, "defer")

\* A page with an asynchronous script followed by one that is not: the second
\* has defer in the document built, the first has not.
C19_Witness ==
    /\ pc = "run_lighthouse_tests"
    /\ LET original == loc.trees[site.dom]
           before   == Named(original, "script")
           after    == Named(loc.trees[loc.optimized_dom], "script")
       IN  /\ Len(before) = 2
           /\ HasAttr(original.nodes[before[1]], "async")
           /\ ~HasAttr(original.nodes[before[2]], "async")
           /\ ~HasAttr(original.nodes[before[2]], "defer")
           /\ ~HasAttr(loc.trees[loc.optimized_dom].nodes[after[1]], "defer")
           /\ HasAttr(loc.trees[loc.optimized_dom].nodes[after[2]], "defer")

\* C20: in the document _optimize_html has built, an img element has
\* fetchpriority=high only if it is the LCP candidate, the LCP candidate has
\* no loading=lazy, and every other img element has loading=lazy: all of them
\* when there is no LCP candidate.
C20_ImagesPartitioned ==
    pc = "run_lighthouse_tests" =>
        LET optimized_dom == loc.trees[loc.optimized_dom]
            imgs          == Range(Named(optimized_dom, "img"))
            lazy          == { id \in imgs :
                                 /\ HasAttr(optimized_dom.nodes[id], "loading")
                                 /\ optimized_dom.nodes[id].attrs.loading
                                        = StrVal("lazy") }
            high          == { id \in imgs :
                                 /\ HasAttr(optimized_dom.nodes[id], "fetchpriority")
                                 /\ optimized_dom.nodes[id].attrs.fetchpriority
                                        = StrVal("high") }
        IN  /\ high = { loc.lcp_candidate } \ { 0 }
            /\ lazy = imgs \ { loc.lcp_candidate }

\* C21: the image _optimize_html takes as its LCP candidate is the image
\* find_above_fold_elements takes as the dominant one in the same document:
\* the img that declares a width and a height with the largest product, the
\* first of them in the document; and there is no LCP candidate when the
\* document has no image that declares both.
C21_SameDominantImage ==
    pc = "run_lighthouse_tests" =>
        LET original == loc.trees[site.dom]
            found    == find_above_fold_elements(original)
            dominant == found.above_fold_elements[Len(found.above_fold_elements)]
        IN  IF C8_SizedImages(original) = << >> \/ found.raised
            THEN loc.lcp_candidate = 0
            ELSE /\ loc.lcp_candidate # 0
                 /\ ImagesWithSrc(original)[IndexIn(loc.images, loc.lcp_candidate)]
                        = dominant

\* The origin of a URL: its scheme and its host, 'scheme://host'.
C22_Origin(url) == SubSeq(url, 1, Find(url, "://", 1) + 2) \o Netloc(url)

\* The children of head that are links with the given rel, in their order.
C22_Hints(dom, head, rel) ==
    SelectSeq(dom.nodes[head].kids,
              LAMBDA id : /\ dom.nodes[id].tag = "link"
                          /\ Tokens(dom.nodes[id], "rel") = << rel >>)

\* C22: in the document _optimize_html has built, head holds, for each origin
\* of a URL of self.resources (css, js, images, fonts), one preconnect link and
\* one dns-prefetch link with that origin as href, and no preconnect or
\* dns-prefetch link besides these.
C22_OneHintPairPerOrigin ==
    pc = "run_lighthouse_tests" =>
        LET optimized_dom == loc.trees[loc.optimized_dom]
            origins ==
                UNION { { C22_Origin(site.resources[ResourceTypes[k]][n].url) :
                            n \in DOMAIN site.resources[ResourceTypes[k]] } :
                        k \in DOMAIN ResourceTypes }
        IN  \A rel \in { "preconnect", "dns-prefetch" } :
                LET hints == C22_Hints(optimized_dom, loc.head, rel)
                IN  /\ Len(hints) = Cardinality(origins)
                    /\ { optimized_dom.nodes[hints[n]].attrs.href :
                           n \in DOMAIN hints } = { StrVal(o) : o \in origins }

\* C23: _optimize_html ends no call with an exception, whatever the document
\* lacks: every call goes through its steps up to the cache-control meta
\* element and writes the document it has built to index.html.
C23_TransformNeverAborts ==
    [][pc = "optimize_html" =>
           /\ pc' = "run_lighthouse_tests"
           /\ "index.html" \in DOMAIN world'.files
           /\ LET optimized_dom == loc'.trees[loc'.optimized_dom]
                  last == optimized_dom.nodes[loc'.head].kids[
                              Len(optimized_dom.nodes[loc'.head].kids)]
              IN  /\ optimized_dom.nodes[last].tag = "meta"
                  /\ world'.files["index.html"].text = Str(optimized_dom)]_vars

\* The stylesheet links of a document whose stylesheet can be fetched, and those
\* whose stylesheet cannot.
C24_Links(dom, ok) ==
    { id \in Ids(dom) :
        /\ IsStylesheetLink(dom.nodes[id])
        /\ HasAttr(dom.nodes[id], "href")
        /\ SheetAt(UrlJoin(PageUrl, AttrStr(dom.nodes[id], "href"))).ok = ok }

\* The texts of the stylesheets of a document that can be had: of the links
\* whose fetch succeeds and of the style elements that hold a text.
C24_Texts(dom) ==
    ({ SheetAt(UrlJoin(PageUrl, AttrStr(dom.nodes[id], "href"))).text :
         id \in C24_Links(dom, TRUE) }
     \cup { TagString(dom, id) :
              id \in { k \in Ids(dom) : dom.nodes[k].tag = "style" } })
    \ { "" }

\* Whether a rule has a selector whose base form holds a signature of the
\* above-fold elements of the document.
C24_Matches(dom, rule) ==
    LET signatures ==
            extract_element_selectors(dom,
                find_above_fold_elements(dom).above_fold_elements)
    IN  /\ ~IsAtRule(rule)
        /\ \E s \in Range(Split(Strip(rule.selector), ",")), sig \in signatures :
               Contains(StripPseudo(Strip(s)), sig)

\* C24: a call of extract_critical_css on a page that can be fetched leaves in
\* the extractor every stylesheet that can be had, whether or not the fetch of another one
\* has failed ahead of it, and the text it returns holds the block of every
\* matching rule of each of them.
C24_PartialSheetsTolerated ==
    (world.page_ok /\ Len(loc) > 0 /\ ~loc[Len(loc)].raised /\ ext.dom # None) =>
        /\ { ext.css_contents[n].content : n \in DOMAIN ext.css_contents }
               = C24_Texts(world.dom)
        /\ \A text \in C24_Texts(world.dom) :
               \A r \in DOMAIN FindRules(text) :
                   C24_Matches(world.dom, FindRules(text)[r]) =>
                       Contains(loc[Len(loc)].critical_css,
                                C13_Block(FindRules(text)[r]))

\* A page whose first stylesheet link cannot be fetched, followed by a link
\* that can and by an element its stylesheet has a rule for: the rule is in
\* the text returned.
C24_Witness ==
    /\ world.page_ok /\ Len(loc) > 0 /\ ~loc[Len(loc)].raised /\ ext.dom # None
    /\ C24_Links(world.dom, FALSE) # {}
    /\ \E good \in C24_Links(world.dom, TRUE) :
           \A bad \in C24_Links(world.dom, FALSE) : bad < good
    /\ Contains(loc[Len(loc)].critical_css, ".hero, nav:hover {\n    m:0;\n}\n")

\* C25: _optimize_html is deterministic: a call on a document, a critical CSS
\* file and resources ends as every other call on the same ones does, in
\* whatever order the process iterates over the set of external domains, and
\* writes the same text to index.html, the preconnect and dns-prefetch links
\* in the same order.
C25_TransformDeterministic ==
    [][(pc = "optimize_html" /\ site.dom # 0) =>
           \A seed \in HashSeeds :
               LET other == optimize_html(site, loc.trees, world.files, seed)
               IN  /\ other.raised = (pc' = "crashed")
                   /\ other.files = world'.files]_vars

\* The critical selector set of the extractor's last call: the selectors
\* match_selectors returns for the signatures of the above-fold elements, over
\* all the stylesheets stored.
C26_CriticalSet ==
    LET signatures ==
            extract_element_selectors(ext.dom,
                find_above_fold_elements(ext.dom).above_fold_elements)
    IN  UNION { match_selectors(SetToSeq(signatures),
                                parse_css(ext.css_contents[n].content)) :
                n \in DOMAIN ext.css_contents }

\* The selector lists of the rules that stand in a text behind the header and
\* the reset rules.
C26_EmittedLists(critical_css) ==
    LET blocks == FindRules(SubSeq(critical_css, Len(Header \o Preamble) + 1,
                                   Len(critical_css)))
    IN  [ b \in DOMAIN blocks |->
            Range(StripAll(Split(Strip(blocks[b].selector), ","))) ]

\* C26: after a call of extract_critical_css that returns a text, every
\* selector of the critical set is a selector parse_css returns for a stored
\* stylesheet and stands in the selector list of a rule of the text; every rule
\* of the text has a selector of the set in its list; and the text is the
\* header and the reset rules alone when the set is empty.
C26_MatchingAgreesWithComposition ==
    (world.page_ok /\ Len(loc) > 0 /\ ~loc[Len(loc)].raised /\ ext.dom # None) =>
        LET parsed  == UNION { Range(parse_css(ext.css_contents[n].content)) :
                               n \in DOMAIN ext.css_contents }
            emitted == C26_EmittedLists(loc[Len(loc)].critical_css)
        IN  /\ C26_CriticalSet \subseteq parsed
            /\ \A s \in C26_CriticalSet : \E b \in DOMAIN emitted : s \in emitted[b]
            /\ \A b \in DOMAIN emitted : emitted[b] \cap C26_CriticalSet # {}
            /\ C26_CriticalSet = {} =>
                   loc[Len(loc)].critical_css = Header \o Preamble

\* Two stylesheets stored, a critical set that holds a selector with a pseudo
\* class and a selector of the other stylesheet, and rules of both emitted.
C26_Witness ==
    /\ world.page_ok /\ Len(loc) > 0 /\ ~loc[Len(loc)].raised /\ ext.dom # None
    /\ Len(ext.css_contents) = 2
    /\ { "nav a:hover", ".hero", "nav:hover" } \subseteq C26_CriticalSet
    /\ Len(C26_EmittedLists(loc[Len(loc)].critical_css)) = 2

\* C27: in the document _optimize_html has built, the counterpart of every
\* stylesheet link whose resource has a local_path has that path as its href,
\* and the counterpart of every script whose resource has a local_path has
\* that path as its src.
C27_LocalPathsReferenced ==
    pc = "run_lighthouse_tests" =>
        LET original       == loc.trees[site.dom]
            optimized_dom  == loc.trees[loc.optimized_dom]
            links_before   == StylesheetLinks(original)
            links_after    == C12_StylePreloads(optimized_dom)
            scripts_before == Named(original, "script")
            scripts_after  == Named(optimized_dom, "script")
        IN  /\ \A k \in DOMAIN site.resources.css :
                   "local_path" \in DOMAIN site.resources.css[k] =>
                       \A n \in DOMAIN links_before :
                           links_before[n] = site.resources.css[k].element =>
                               /\ n \in DOMAIN links_after
                               /\ optimized_dom.nodes[links_after[n]].attrs.href
                                      = StrVal(site.resources.css[k].local_path)
            /\ \A k \in DOMAIN site.resources.js :
                   "local_path" \in DOMAIN site.resources.js[k] =>
                       \A n \in DOMAIN scripts_before :
                           scripts_before[n] = site.resources.js[k].element =>
                               /\ n \in DOMAIN scripts_after
                               /\ optimized_dom.nodes[scripts_after[n]].attrs.src
                                      = StrVal(site.resources.js[k].local_path)

\* C28: the images with a src stand in the document _optimize_html has built in
\* the order in which step 6 has found them, that is, in the order they have in
\* the input, whether or not an image has been put into a picture element.
C28_ImagesKeepDocumentOrder ==
    pc = "run_lighthouse_tests" =>
        LET optimized_dom == loc.trees[loc.optimized_dom]
        IN  FindAll(optimized_dom,
                    { id \in Ids(optimized_dom) :
                        /\ optimized_dom.nodes[id].tag = "img"
                        /\ HasAttr(optimized_dom.nodes[id], "src") })
                = loc.images

\* C29: when applied_optimizations holds 'Inlined critical CSS in the head'
\* after _optimize_html, the head of the document built holds a style element
\* whose text is the content of css/critical.css, and applied_optimizations
\* holds 'Extracted critical CSS for above-the-fold content'.
C29_InlinedOnlyIfExtracted ==
    (/\ pc = "run_lighthouse_tests"
     /\ \E n \in DOMAIN site.applied_optimizations :
            site.applied_optimizations[n] = "Inlined critical CSS in the head") =>
        LET optimized_dom == loc.trees[loc.optimized_dom]
        IN  /\ "css/critical.css" \in DOMAIN world.files
            /\ \E style \in Ids(optimized_dom) :
                   /\ optimized_dom.nodes[style].tag = "style"
                   /\ optimized_dom.nodes[style].parent = loc.head
                   /\ Decode(optimized_dom, optimized_dom.nodes[style].kids)
                          = world.files["css/critical.css"].text
            /\ \E n \in DOMAIN site.applied_optimizations :
                   site.applied_optimizations[n]
                       = "Extracted critical CSS for above-the-fold content"

====
